---- MODULE Spec2Model ----
(***************************************************************************)
(* Resilience and session-management layer of the MyT -> ABRP gateway:     *)
(* the three-state circuit breaker (myt2abrp/src/circuit_breaker.rs and    *)
(* components/circuit-breaker), send_request which wraps every upstream    *)
(* call with it, the key-value-store rate limiter and failed-login         *)
(* lockout, and the login handler that composes them                       *)
(* (myt2abrp/src/lib.rs).                                                  *)
(*                                                                         *)
(* Time is the wall clock in whole seconds (current_timestamp /            *)
(* get_current_timestamp); it is modelled as non-decreasing.  Of the       *)
(* Prometheus metrics written through METRICS only the active_sessions     *)
(* gauge is part of the modelled state.                                    *)
(***************************************************************************)
EXTENDS Integers, Sequences, FiniteSets, TLC

(***************************************************************************)
(* Bounds of the breaker model.                                            *)
(***************************************************************************)
MaxTime == 2
MaxFailureThreshold == 2
MaxSuccessThreshold == 2
MaxTimeout == 2
NumRequests == 2

Requests == 1..NumRequests

(***************************************************************************)
(* Bounds of the rate-limiter model.                                       *)
(***************************************************************************)
MaxLimit == 2
MaxWindow == 2
RateHorizon == 4
MaxFailCount == 6

(***************************************************************************)
(* Bounds of the login model.                                              *)
(***************************************************************************)
MaxLogins == 6

(***************************************************************************)
(* Bounds of the token-cache model.                                        *)
(***************************************************************************)
MaxRequests == 3

\* Interleaving model: requests begun in one behaviour.
MaxRaceOps == 3

\* Retry policy: attempt and max_attempts range over 0..MaxAttempt.
MaxAttempt == 5

\* Recovery model: the clock runs from 0 to MaxLiveTime.
MaxLiveTime == 4

(***************************************************************************)
(* Program constants                                                       *)
(***************************************************************************)
RATE_LIMIT_LOGIN_ATTEMPTS == 5
RATE_LIMIT_LOGIN_LOCKOUT_SECONDS == 900
RATE_LIMIT_PER_USER_HOUR == 100
RATE_WINDOW_SECONDS == 3600
TOKEN_TTL_SECONDS == 3600
EXPIRY_BUFFER_SECONDS == 60
DEFAULT_MAX_ATTEMPTS == 3
ProviderExpiresIn == 3600
JWT_ACCESS_TOKEN_EXPIRY == 900
JWT_REFRESH_TOKEN_EXPIRY == 604800
DEFAULT_INITIAL_DELAY_MS == 100
DEFAULT_MAX_DELAY_MS == 10000

\* Upstream outcomes of one HTTP call: a status code, or a transport error
\* (network failure / timeout) reported by spin_sdk::http::send.
Statuses == {200, 204, 302, 404, 429, 500, 503}
NetErr == [err |-> TRUE, status |-> 0]
Outcomes == {[err |-> FALSE, status |-> s] : s \in Statuses} \cup {NetErr}

VARIABLES
    now,        \* wall clock, seconds
    config,     \* CircuitBreakerConfig
    breaker,    \* CircuitBreakerState (behind the Mutex)
    reqs,       \* per concurrent send_request call: where it is suspended
    last,       \* history: the most recent breaker operation and its result
    failRun,    \* history: record_failure calls since Closed with count 0
    succRun,    \* history: record_success calls since Open -> HalfOpen
    store,      \* the key-value store: key -> stored value
    rl,         \* limit and window_seconds passed to check_rate_limit
    rlast,      \* history: the most recent rate-limiter call
    gwin,       \* history: per key, the window as the caller counts it
    nLogins,    \* number of requests handled so far
    tokSeq,     \* number of token pairs the provider has issued
    streak,     \* history: per user, consecutive failed logins
    lres,       \* history: the most recent request and its response
    jwts,       \* the gateway JWTs issued so far (claims of each)
    race,       \* two requests in flight: the locals of each, and history
    retry,      \* the retry policy: its configuration and its latest call
    tq,         \* a CachedToken and the latest is_expired call on it
    cb,         \* the breaker of components/circuit-breaker and its result
    health,     \* whether the provider has recovered for good, and the
                \* breaker state it found then
    active_sessions,    \* METRICS.active_sessions (AtomicU64)
    sess        \* history: the logins, their tokens and the ended ones

bvars == <<now, config, breaker, reqs, last, failRun, succRun>>
rvars == <<store, rl, rlast, gwin>>
lvars == <<nLogins, tokSeq, streak, lres, jwts, race, retry,
           tq, cb, health, active_sessions, sess>>
vars == <<now, config, breaker, reqs, last, failRun, succRun,
          store, rl, rlast, gwin, nLogins, tokSeq, streak, lres, jwts,
          race, retry, tq, cb, health, active_sessions, sess>>

(***************************************************************************)
(* CircuitBreaker                                                          *)
(***************************************************************************)
Configs ==
    [failure_threshold : 1..MaxFailureThreshold,
     timeout_seconds   : 1..MaxTimeout,
     success_threshold : 1..MaxSuccessThreshold]

\* CircuitBreakerConfig::default
DefaultConfig ==
    [failure_threshold |-> 5, timeout_seconds |-> 60, success_threshold |-> 2]

\* CircuitBreaker::new
new ==
    [current_state |-> "Closed", failure_count |-> 0,
     success_count |-> 0, last_failure_time |-> 0]

can_attempt_strict(b, cfg, t) ==
    CASE b.current_state = "Closed" ->
            [b |-> b, ok |-> TRUE, retry_after_seconds |-> 0]
      [] b.current_state = "Open" ->
            IF t - b.last_failure_time > cfg.timeout_seconds
            THEN [b |-> [b EXCEPT !.current_state = "HalfOpen",
                                  !.success_count = 0],
                  ok |-> TRUE, retry_after_seconds |-> 0]
            ELSE [b |-> b, ok |-> FALSE,
                  retry_after_seconds |->
                      cfg.timeout_seconds - (t - b.last_failure_time)]
      [] b.current_state = "HalfOpen" ->
            [b |-> b, ok |-> TRUE, retry_after_seconds |-> 0]

\* CircuitBreaker::can_attempt: Ok(()) or Err(Open { retry_after_seconds })
can_attempt(b, cfg, t) ==
    CASE b.current_state = "Closed" ->
            [b |-> b, ok |-> TRUE, retry_after_seconds |-> 0]
      [] b.current_state = "Open" ->
            IF t - b.last_failure_time >= cfg.timeout_seconds
            THEN [b |-> [b EXCEPT !.current_state = "HalfOpen",
                                  !.success_count = 0],
                  ok |-> TRUE, retry_after_seconds |-> 0]
            ELSE [b |-> b, ok |-> FALSE,
                  retry_after_seconds |->
                      cfg.timeout_seconds - (t - b.last_failure_time)]
      [] b.current_state = "HalfOpen" ->
            [b |-> b, ok |-> TRUE, retry_after_seconds |-> 0]

record_success_late(b, cfg) ==
    CASE b.current_state = "Closed" ->
            IF b.failure_count > 0 THEN [b EXCEPT !.failure_count = 0] ELSE b
      [] b.current_state = "HalfOpen" ->
            IF b.success_count + 1 > cfg.success_threshold
            THEN [b EXCEPT !.current_state = "Closed",
                           !.failure_count = 0, !.success_count = 0]
            ELSE [b EXCEPT !.success_count = b.success_count + 1]
      [] b.current_state = "Open" -> b

\* record_success that leaves failure_count alone while Closed
record_success_keeps_failures(b, cfg) ==
    CASE b.current_state = "Closed" -> b
      [] b.current_state = "HalfOpen" ->
            IF b.success_count + 1 >= cfg.success_threshold
            THEN [b EXCEPT !.current_state = "Closed",
                           !.failure_count = 0, !.success_count = 0]
            ELSE [b EXCEPT !.success_count = b.success_count + 1]
      [] b.current_state = "Open" -> b

\* record_success that closes an Open breaker
record_success_closes_open(b, cfg) ==
    CASE b.current_state = "Closed" ->
            IF b.failure_count > 0 THEN [b EXCEPT !.failure_count = 0] ELSE b
      [] b.current_state = "HalfOpen" ->
            IF b.success_count + 1 >= cfg.success_threshold
            THEN [b EXCEPT !.current_state = "Closed",
                           !.failure_count = 0, !.success_count = 0]
            ELSE [b EXCEPT !.success_count = b.success_count + 1]
      [] b.current_state = "Open" ->
            [b EXCEPT !.current_state = "Closed", !.failure_count = 0]

\* CircuitBreaker::record_success
record_success(b, cfg) ==
    CASE b.current_state = "Closed" ->
            IF b.failure_count > 0 THEN [b EXCEPT !.failure_count = 0] ELSE b
      [] b.current_state = "HalfOpen" ->
            IF b.success_count + 1 >= cfg.success_threshold
            THEN [b EXCEPT !.current_state = "Closed",
                           !.failure_count = 0, !.success_count = 0]
            ELSE [b EXCEPT !.success_count = b.success_count + 1]
      [] b.current_state = "Open" -> b

record_failure_late(b, cfg, t) ==
    CASE b.current_state = "Closed" ->
            IF b.failure_count + 1 > cfg.failure_threshold
            THEN [b EXCEPT !.current_state = "Open",
                           !.failure_count = b.failure_count + 1,
                           !.last_failure_time = t]
            ELSE [b EXCEPT !.failure_count = b.failure_count + 1,
                           !.last_failure_time = t]
      [] b.current_state = "HalfOpen" ->
            [b EXCEPT !.current_state = "Open", !.failure_count = 1,
                      !.success_count = 0, !.last_failure_time = t]
      [] b.current_state = "Open" ->
            [b EXCEPT !.last_failure_time = t]

record_failure_keep_count(b, cfg, t) ==
    CASE b.current_state = "Closed" ->
            IF b.failure_count + 1 >= cfg.failure_threshold
            THEN [b EXCEPT !.current_state = "Open",
                           !.failure_count = b.failure_count + 1,
                           !.last_failure_time = t]
            ELSE [b EXCEPT !.failure_count = b.failure_count + 1,
                           !.last_failure_time = t]
      [] b.current_state = "HalfOpen" ->
            [b EXCEPT !.current_state = "Open",
                      !.success_count = 0, !.last_failure_time = t]
      [] b.current_state = "Open" ->
            [b EXCEPT !.last_failure_time = t]

\* record_failure that leaves an Open breaker as it is
record_failure_open_ignored(b, cfg, t) ==
    CASE b.current_state = "Closed" ->
            IF b.failure_count + 1 >= cfg.failure_threshold
            THEN [b EXCEPT !.current_state = "Open",
                           !.failure_count = b.failure_count + 1,
                           !.last_failure_time = t]
            ELSE [b EXCEPT !.failure_count = b.failure_count + 1,
                           !.last_failure_time = t]
      [] b.current_state = "HalfOpen" ->
            [b EXCEPT !.current_state = "Open", !.failure_count = 1,
                      !.success_count = 0, !.last_failure_time = t]
      [] b.current_state = "Open" -> b

\* CircuitBreaker::record_failure
record_failure(b, cfg, t) ==
    CASE b.current_state = "Closed" ->
            IF b.failure_count + 1 >= cfg.failure_threshold
            THEN [b EXCEPT !.current_state = "Open",
                           !.failure_count = b.failure_count + 1,
                           !.last_failure_time = t]
            ELSE [b EXCEPT !.failure_count = b.failure_count + 1,
                           !.last_failure_time = t]
      [] b.current_state = "HalfOpen" ->
            [b EXCEPT !.current_state = "Open", !.failure_count = 1,
                      !.success_count = 0, !.last_failure_time = t]
      [] b.current_state = "Open" ->
            [b EXCEPT !.last_failure_time = t]

(***************************************************************************)
(* send_request: the breaker gate, the upstream call (a suspension point), *)
(* and the classification of its outcome.                                  *)
(***************************************************************************)
Is2xx(o) == ~o.err /\ o.status >= 200 /\ o.status < 300
Is5xx(o) == ~o.err /\ o.status >= 500

send_request_gate_ignored(b, cfg, t) ==
    LET r == can_attempt(b, cfg, t)
    IN  [b |-> r.b, sent |-> TRUE, ok |-> r.ok,
         retry_after_seconds |-> r.retry_after_seconds]

\* send_request up to the await: the request is handed to the HTTP client
\* only if can_attempt returned Ok.
send_request_gate(b, cfg, t) ==
    LET r == can_attempt(b, cfg, t)
    IN  [b |-> r.b, sent |-> r.ok, ok |-> r.ok,
         retry_after_seconds |-> r.retry_after_seconds]

send_request_result_4xx_fails(b, cfg, t, o) ==
    IF Is2xx(o)
    THEN [b |-> record_success(b, cfg), recorded |-> "success", ok |-> TRUE]
    ELSE IF o.err \/ o.status >= 400
    THEN [b |-> record_failure(b, cfg, t), recorded |-> "failure", ok |-> FALSE]
    ELSE [b |-> b, recorded |-> "none", ok |-> TRUE]

\* send_request that does not report a 2xx answer to the breaker
send_request_result_success_unrecorded(b, cfg, t, o) ==
    IF o.err
    THEN [b |-> record_failure(b, cfg, t), recorded |-> "failure", ok |-> FALSE]
    ELSE IF Is2xx(o)
    THEN [b |-> b, recorded |-> "none", ok |-> TRUE]
    ELSE IF Is5xx(o)
    THEN [b |-> record_failure(b, cfg, t), recorded |-> "failure", ok |-> FALSE]
    ELSE [b |-> b, recorded |-> "none", ok |-> TRUE]

\* send_request after the await: 2xx -> record_success, Ok; >= 500 or a
\* transport error -> record_failure, Err; anything else -> Ok, unrecorded.
send_request_result(b, cfg, t, o) ==
    IF o.err
    THEN [b |-> record_failure(b, cfg, t), recorded |-> "failure", ok |-> FALSE]
    ELSE IF Is2xx(o)
    THEN [b |-> record_success(b, cfg), recorded |-> "success", ok |-> TRUE]
    ELSE IF Is5xx(o)
    THEN [b |-> record_failure(b, cfg, t), recorded |-> "failure", ok |-> FALSE]
    ELSE [b |-> b, recorded |-> "none", ok |-> TRUE]

(***************************************************************************)
(* Key-value store (spin_sdk::key_value::Store): get / set / delete        *)
(***************************************************************************)
EmptyStore == [k \in {} |-> <<>>]

\* Store::get: <<>> for a missing key, <<value>> otherwise
Get(st, key) == IF key \in DOMAIN st THEN <<st[key]>> ELSE <<>>

\* Store::set that leaves an existing value in place
Put_first_write_wins(st, key, v) ==
    [k \in DOMAIN st \cup {key} |->
        IF k \in DOMAIN st THEN st[k] ELSE v]

\* Store::set
Put(st, key, v) == [k \in DOMAIN st \cup {key} |-> IF k = key THEN v ELSE st[k]]

\* Store::delete
Delete(st, key) == [k \in DOMAIN st \ {key} |-> st[k]]

(***************************************************************************)
(* Rate limiter and failed-login lockout (RateLimitInfo in the store).     *)
(* lockout_until : Option<i64> is <<>> for None and <<t>> for Some(t).     *)
(***************************************************************************)
RATE_LIMIT_KEY_PREFIX == "ratelimit_"

RateKey(identifier) == RATE_LIMIT_KEY_PREFIX \o identifier

\* the RateLimitInfo used when the key is missing
FreshRateInfo(t) == [count |-> 0, window_start |-> t, lockout_until |-> <<>>]

LoadRateInfo(st, key, t) ==
    IF key \in DOMAIN st THEN st[key] ELSE FreshRateInfo(t)

check_rate_limit_window_ge(st, identifier, limit, window_seconds, t) ==
    LET key == RateKey(identifier)
        r0 == LoadRateInfo(st, key, t)
        locked == r0.lockout_until # <<>> /\ t < r0.lockout_until[1]
        r1 == [r0 EXCEPT !.lockout_until = <<>>]
        r2 == IF t - r1.window_start >= window_seconds
              THEN [r1 EXCEPT !.count = 0, !.window_start = t]
              ELSE r1
        r3 == [r2 EXCEPT !.count = r2.count + 1]
    IN  IF locked THEN [store |-> st, allowed |-> FALSE]
        ELSE IF r3.count > limit THEN [store |-> st, allowed |-> FALSE]
        ELSE [store |-> Put(st, key, r3), allowed |-> TRUE]

\* check_rate_limit with a denied call under lockout counted in the window
check_rate_limit_lockout_counts(st, identifier, limit, window_seconds, t) ==
    LET key == RateKey(identifier)
        r0 == LoadRateInfo(st, key, t)
        locked == r0.lockout_until # <<>> /\ t < r0.lockout_until[1]
        r1 == [r0 EXCEPT !.lockout_until = <<>>]
        r2 == IF t - r1.window_start > window_seconds
              THEN [r1 EXCEPT !.count = 0, !.window_start = t]
              ELSE r1
        r3 == [r2 EXCEPT !.count = r2.count + 1]
    IN  IF locked
        THEN [store |-> Put(st, key, [r0 EXCEPT !.count = r0.count + 1]),
              allowed |-> FALSE]
        ELSE IF r3.count > limit THEN [store |-> st, allowed |-> FALSE]
        ELSE [store |-> Put(st, key, r3), allowed |-> TRUE]

\* check_rate_limit that compares the count before incrementing it
check_rate_limit_checks_before_increment(st, identifier, limit, window_seconds, t) ==
    LET key == RateKey(identifier)
        r0 == LoadRateInfo(st, key, t)
        locked == r0.lockout_until # <<>> /\ t < r0.lockout_until[1]
        r1 == [r0 EXCEPT !.lockout_until = <<>>]
        r2 == IF t - r1.window_start > window_seconds
              THEN [r1 EXCEPT !.count = 0, !.window_start = t]
              ELSE r1
        r3 == [r2 EXCEPT !.count = r2.count + 1]
    IN  IF locked THEN [store |-> st, allowed |-> FALSE]
        ELSE IF r2.count > limit THEN [store |-> st, allowed |-> FALSE]
        ELSE [store |-> Put(st, key, r3), allowed |-> TRUE]

\* check_rate_limit: Ok(true) allowed, Ok(false) denied
check_rate_limit(st, identifier, limit, window_seconds, t) ==
    LET key == RateKey(identifier)
        r0 == LoadRateInfo(st, key, t)
        locked == r0.lockout_until # <<>> /\ t < r0.lockout_until[1]
        r1 == [r0 EXCEPT !.lockout_until = <<>>]
        r2 == IF t - r1.window_start > window_seconds
              THEN [r1 EXCEPT !.count = 0, !.window_start = t]
              ELSE r1
        r3 == [r2 EXCEPT !.count = r2.count + 1]
    IN  IF locked THEN [store |-> st, allowed |-> FALSE]
        ELSE IF r3.count > limit THEN [store |-> st, allowed |-> FALSE]
        ELSE [store |-> Put(st, key, r3), allowed |-> TRUE]

\* record_failed_login with the lockout set only past the threshold
record_failed_login_threshold_gt(st, identifier, t) ==
    LET key == RateKey("login_" \o identifier)
        r0 == LoadRateInfo(st, key, t)
        r1 == [r0 EXCEPT !.count = r0.count + 1]
        r2 == IF r1.count > RATE_LIMIT_LOGIN_ATTEMPTS
              THEN [r1 EXCEPT !.lockout_until =
                                  <<t + RATE_LIMIT_LOGIN_LOCKOUT_SECONDS>>]
              ELSE r1
    IN  Put(st, key, r2)

\* record_failed_login
record_failed_login(st, identifier, t) ==
    LET key == RateKey("login_" \o identifier)
        r0 == LoadRateInfo(st, key, t)
        r1 == [r0 EXCEPT !.count = r0.count + 1]
        r2 == IF r1.count >= RATE_LIMIT_LOGIN_ATTEMPTS
              THEN [r1 EXCEPT !.lockout_until =
                                  <<t + RATE_LIMIT_LOGIN_LOCKOUT_SECONDS>>]
              ELSE r1
    IN  Put(st, key, r2)

\* clear_failed_logins
clear_failed_logins(st, identifier) ==
    Delete(st, RateKey("login_" \o identifier))

(***************************************************************************)
(* Identity hashing and token-cache entries                                *)
(***************************************************************************)
Users == {"ann@x.io"}

TOKEN_CACHE_KEY_PREFIX == "toyota_auth_token_"
SESSION_KEY_PREFIX == "session_"

\* hash_username: HMAC-SHA256 of the username as a hex string; modelled as
\* an injective map whose values are not usernames
hash_username(username) == "hmac(" \o username \o ")"

get_user_token_cache_key(username_hash) ==
    TOKEN_CACHE_KEY_PREFIX \o username_hash

\* CachedToken::from_token_response; n identifies the issued token pair
from_token_response(n, uuid, expires_in, current_time) ==
    [access_token |-> n, refresh_token |-> n, uuid |-> uuid,
     expires_at |-> current_time + expires_in - EXPIRY_BUFFER_SECONDS]

\* is_expired that still accepts the token at the second it expires
is_expired_strict(token, current_time) == current_time > token.expires_at

\* CachedToken::is_expired
is_expired(token, current_time) == current_time >= token.expires_at

\* PerUserCachedToken::new
PerUserCachedToken(token, current_time, ttl_seconds) ==
    [token |-> token, last_accessed |-> current_time,
     ttl_seconds |-> ttl_seconds]

\* PerUserCachedToken::is_ttl_expired
is_ttl_expired(e, current_time) ==
    (current_time - e.last_accessed) > e.ttl_seconds

(***************************************************************************)
(* The upstream provider as seen by one request: for each call of the      *)
(* login and refresh flows, how the provider answers.                      *)
(***************************************************************************)
FlowSteps == <<"initiate", "submit", "authorize", "exchange">>
Steps == {"initiate", "submit", "authorize", "exchange", "refresh"}
Kinds == {"ok", "denied", "server", "transport", "malformed"}

\* The response to a call: "ok" is the success response of that step (a
\* redirect carrying the code for authorize, 200 otherwise), "denied" a 401,
\* "server" a 500, "transport" a failed send, "malformed" a success status
\* whose body or headers do not parse.  The provider answers the credential
\* submission with 401 unless the password is the right one.
Response(step, kind, pw_ok) ==
    LET k == IF step = "submit" /\ kind = "ok" /\ ~pw_ok THEN "denied"
             ELSE kind
        okStatus == IF step = "authorize" THEN 302 ELSE 200
    IN  CASE k = "ok"        -> [err |-> FALSE, status |-> okStatus, body |-> TRUE]
          [] k = "denied"    -> [err |-> FALSE, status |-> 401, body |-> FALSE]
          [] k = "server"    -> [err |-> FALSE, status |-> 500, body |-> FALSE]
          [] k = "transport" -> [err |-> TRUE, status |-> 0, body |-> FALSE]
          [] k = "malformed" -> [err |-> FALSE, status |-> okStatus, body |-> FALSE]

\* What the provider does during one request: the first flow step that does
\* not succeed (none when k = "ok") and the answer to a refresh.
Upstreams ==
    {[s \in Steps |-> IF s = "refresh" THEN rk
                      ELSE IF s = fs THEN fk ELSE "ok"] :
        fs \in Steps \ {"refresh"}, fk \in Kinds, rk \in Kinds}

\* send_request, once the upstream call has returned with outcome o
send_request_sent(e, o) ==
    [b |-> e.b, ok |-> e.ok, sent |-> TRUE, recorded |-> e.recorded,
     err |-> IF e.ok THEN "none"
             ELSE IF o.err THEN "transport" ELSE "server",
     retry_after_seconds |-> 0]

\* send_request, after the breaker gate g
send_request_gated(g, cfg, t, o) ==
    IF ~g.sent
    THEN [b |-> g.b, ok |-> FALSE, sent |-> FALSE, recorded |-> "none",
          err |-> "breaker_open",
          retry_after_seconds |-> g.retry_after_seconds]
    ELSE send_request_sent(
             send_request_result(g.b, cfg, t,
                                 [err |-> o.err, status |-> o.status]),
             o)

\* send_request as one call made by a handler at time t
send_request(b, cfg, t, o) ==
    send_request_gated(send_request_gate(b, cfg, t), cfg, t, o)

\* the checks a flow makes on a response that send_request returned Ok:
\* the status must be 200 for submit, exchange, refresh and the vehicle
\* list; the body (tokenId, Location code, tokens and id_token, vehicle
\* list) must parse
StepAccepts(step, o) ==
    /\ step \in {"submit", "exchange", "refresh", "vehicles"} => o.status = 200
    /\ o.body

\* ok: the call returned a response that its flow accepted
CallRecord(step, c, o) ==
    [step |-> step, sent |-> c.sent, recorded |-> c.recorded,
     status |-> IF c.sent /\ ~o.err THEN o.status ELSE 0,
     ok |-> c.ok /\ StepAccepts(step, o)]

\* The calls of a flow in order: each is made once, and the first one that
\* fails (Err from send_request, or a response the flow rejects) ends the
\* flow.  RunSteps makes the next call, StepDone continues from its result c
\* with the call appended to the record cs.
RECURSIVE RunSteps(_, _, _, _, _, _, _)
RECURSIVE StepDone(_, _, _, _, _, _, _, _)
StepDone_ignores_rejection(c, o, cs, cfg, t, steps, up, pw_ok) ==
    IF ~c.ok
    THEN [b |-> c.b, ok |-> FALSE, err |-> c.err, calls |-> cs]
    ELSE RunSteps(c.b, cfg, t, Tail(steps), up, pw_ok, cs)

StepDone(c, o, cs, cfg, t, steps, up, pw_ok) ==
    IF ~c.ok
    THEN [b |-> c.b, ok |-> FALSE, err |-> c.err, calls |-> cs]
    ELSE IF ~StepAccepts(Head(steps), o)
    THEN [b |-> c.b, ok |-> FALSE, err |-> "rejected", calls |-> cs]
    ELSE RunSteps(c.b, cfg, t, Tail(steps), up, pw_ok, cs)

StepSent(c, o, calls, cfg, t, steps, up, pw_ok) ==
    StepDone(c, o, Append(calls, CallRecord(Head(steps), c, o)),
             cfg, t, steps, up, pw_ok)

StepCall(b, o, calls, cfg, t, steps, up, pw_ok) ==
    StepSent(send_request(b, cfg, t, o), o, calls, cfg, t, steps, up, pw_ok)

RunSteps(b, cfg, t, steps, up, pw_ok, calls) ==
    IF steps = <<>>
    THEN [b |-> b, ok |-> TRUE, err |-> "none", calls |-> calls]
    ELSE StepCall(b, Response(Head(steps), up[Head(steps)], pw_ok), calls,
                  cfg, t, steps, up, pw_ok)

\* perform_full_oauth_flow
perform_full_oauth_flow(b, cfg, t, up, pw_ok) ==
    RunSteps(b, cfg, t, FlowSteps, up, pw_ok, <<>>)

\* refresh_access_token
refresh_access_token(b, cfg, t, up) ==
    RunSteps(b, cfg, t, <<"refresh">>, up, TRUE, <<>>)

\* stored bytes that are not the JSON of a PerUserCachedToken
CorruptValue == [unreadable |-> TRUE]

\* serde_json::from_slice::<PerUserCachedToken> succeeds on v
Deserializes(v) == "token" \in DOMAIN v

\* get_per_user_cached_token: Ok(None) for a missing key, Ok(Some(entry))
\* for a readable entry, Err when the stored bytes do not deserialize
get_per_user_cached_token(st, username_hash) ==
    LET key == get_user_token_cache_key(username_hash)
    IN  IF key \notin DOMAIN st THEN [err |-> FALSE, entry |-> <<>>]
        ELSE IF ~Deserializes(st[key]) THEN [err |-> TRUE, entry |-> <<>>]
        ELSE [err |-> FALSE, entry |-> <<st[key]>>]

\* The branch get_or_refresh_token_for_user takes on the stored entry:
\* unreadable, no entry, inactivity-expired, usable, or token expired
CacheStatus(st, username, t) ==
    LET cached == Get(st, get_user_token_cache_key(hash_username(username)))
    IN  IF get_per_user_cached_token(st, hash_username(username)).err
        THEN "corrupt"
        ELSE IF cached = <<>> THEN "absent"
        ELSE IF is_ttl_expired(cached[1], t) THEN "dead"
        ELSE IF ~is_expired(cached[1].token, t) THEN "hit"
        ELSE "stale"

\* decode_jwt_uuid of the id_token returned by the exchange: the account id
\* the provider holds for the user
ProviderUuid == [u \in Users |-> "b7e1-uuid"]

\* the entry saved for a token obtained at time t, the n-th one issued
NewEntry(n, username, t) ==
    PerUserCachedToken(
        from_token_response(n, ProviderUuid[username], ProviderExpiresIn, t),
        t, TOKEN_TTL_SECONDS)

\* get_or_refresh_token_for_user from the return of perform_full_oauth_flow
\* (ff), which started from store st1 after the calls calls1
token_after_flow(ff, st1, calls1, key, t, username, seq) ==
    IF ff.ok
    THEN [store |-> Put(st1, key, NewEntry(seq + 1, username, t)),
          b |-> ff.b, ok |-> TRUE, err |-> "none",
          calls |-> calls1 \o ff.calls,
          seq |-> seq + 1, path |-> "login"]
    ELSE [store |-> st1,
          b |-> ff.b, ok |-> FALSE, err |-> ff.err,
          calls |-> calls1 \o ff.calls,
          seq |-> seq, path |-> "login"]

token_after_refresh_keeps_entry(rf, st, key, cfg, t, username, pw_ok, up, seq) ==
    IF rf.ok
    THEN [store |-> Put(st, key, NewEntry(seq + 1, username, t)),
          b |-> rf.b, ok |-> TRUE, err |-> "none", calls |-> rf.calls,
          seq |-> seq + 1, path |-> "refresh"]
    ELSE token_after_flow(perform_full_oauth_flow(rf.b, cfg, t, up, pw_ok),
                          st, rf.calls, key, t, username, seq)

token_after_refresh_keeps_refresh_token(rf, st, key, cfg, t, username, pw_ok, up, seq) ==
    IF rf.ok
    THEN [store |-> Put(st, key,
                        [NewEntry(seq + 1, username, t) EXCEPT
                             !.token.refresh_token =
                                 st[key].token.refresh_token]),
          b |-> rf.b, ok |-> TRUE, err |-> "none", calls |-> rf.calls,
          seq |-> seq + 1, path |-> "refresh"]
    ELSE token_after_flow(perform_full_oauth_flow(rf.b, cfg, t, up, pw_ok),
                          Delete(st, key), rf.calls, key, t, username, seq)

\* get_or_refresh_token_for_user from the return of refresh_access_token
\* (rf): the refreshed token is saved, or the entry is cleaned up and the
\* full flow runs
token_after_refresh(rf, st, key, cfg, t, username, pw_ok, up, seq) ==
    IF rf.ok
    THEN [store |-> Put(st, key, NewEntry(seq + 1, username, t)),
          b |-> rf.b, ok |-> TRUE, err |-> "none", calls |-> rf.calls,
          seq |-> seq + 1, path |-> "refresh"]
    ELSE token_after_flow(perform_full_oauth_flow(rf.b, cfg, t, up, pw_ok),
                          Delete(st, key), rf.calls, key, t, username, seq)

token_for_status_dead_refreshes(cs, st, key, b, cfg, t, username, pw_ok, up, seq) ==
    IF cs = "corrupt"
    THEN [store |-> st, b |-> b, ok |-> FALSE, err |-> "cache",
          calls |-> <<>>, seq |-> seq, path |-> "none"]
    ELSE IF cs = "hit"
    THEN [store |-> Put(st, key, [st[key] EXCEPT !.last_accessed = t]),
          b |-> b, ok |-> TRUE, err |-> "none", calls |-> <<>>,
          seq |-> seq, path |-> "hit"]
    ELSE IF cs \in {"stale", "dead"}
    THEN token_after_refresh(refresh_access_token(b, cfg, t, up),
                             st, key, cfg, t, username, pw_ok, up, seq)
    ELSE token_after_flow(perform_full_oauth_flow(b, cfg, t, up, pw_ok),
                          IF cs = "dead" THEN Delete(st, key) ELSE st,
                          <<>>, key, t, username, seq)

token_for_status_stale_as_miss(cs, st, key, b, cfg, t, username, pw_ok, up, seq) ==
    IF cs = "corrupt"
    THEN [store |-> st, b |-> b, ok |-> FALSE, err |-> "cache",
          calls |-> <<>>, seq |-> seq, path |-> "none"]
    ELSE IF cs = "hit"
    THEN [store |-> Put(st, key, [st[key] EXCEPT !.last_accessed = t]),
          b |-> b, ok |-> TRUE, err |-> "none", calls |-> <<>>,
          seq |-> seq, path |-> "hit"]
    ELSE token_after_flow(perform_full_oauth_flow(b, cfg, t, up, pw_ok),
                          IF cs = "dead" THEN Delete(st, key) ELSE st,
                          <<>>, key, t, username, seq)

token_for_status_hit_no_touch(cs, st, key, b, cfg, t, username, pw_ok, up, seq) ==
    IF cs = "corrupt"
    THEN [store |-> st, b |-> b, ok |-> FALSE, err |-> "cache",
          calls |-> <<>>, seq |-> seq, path |-> "none"]
    ELSE IF cs = "hit"
    THEN [store |-> st,
          b |-> b, ok |-> TRUE, err |-> "none", calls |-> <<>>,
          seq |-> seq, path |-> "hit"]
    ELSE IF cs = "stale"
    THEN token_after_refresh(refresh_access_token(b, cfg, t, up),
                             st, key, cfg, t, username, pw_ok, up, seq)
    ELSE token_after_flow(perform_full_oauth_flow(b, cfg, t, up, pw_ok),
                          IF cs = "dead" THEN Delete(st, key) ELSE st,
                          <<>>, key, t, username, seq)

\* get_or_refresh_token_for_user on the branch cs
token_for_status(cs, st, key, b, cfg, t, username, pw_ok, up, seq) ==
    IF cs = "corrupt"
    THEN [store |-> st, b |-> b, ok |-> FALSE, err |-> "cache",
          calls |-> <<>>, seq |-> seq, path |-> "none"]
    ELSE IF cs = "hit"
    THEN [store |-> Put(st, key, [st[key] EXCEPT !.last_accessed = t]),
          b |-> b, ok |-> TRUE, err |-> "none", calls |-> <<>>,
          seq |-> seq, path |-> "hit"]
    ELSE IF cs = "stale"
    THEN token_after_refresh(refresh_access_token(b, cfg, t, up),
                             st, key, cfg, t, username, pw_ok, up, seq)
    ELSE token_after_flow(perform_full_oauth_flow(b, cfg, t, up, pw_ok),
                          IF cs = "dead" THEN Delete(st, key) ELSE st,
                          <<>>, key, t, username, seq)

\* get_or_refresh_token_for_user
get_or_refresh_token_for_user(st, b, cfg, t, username, pw_ok, up, seq) ==
    token_for_status(CacheStatus(st, username, t), st,
                     get_user_token_cache_key(hash_username(username)),
                     b, cfg, t, username, pw_ok, up, seq)

\* create_session: the Session record stored under session_<id>
create_session(st, username, session_id, t) ==
    Put(st, SESSION_KEY_PREFIX \o session_id,
        [session_id |-> session_id, username |-> username,
         created_at |-> t, last_accessed |-> t])

\* Uuid::new_v4 for the session id: the next unused id
NewSessionId(st) ==
    ToString(Cardinality({n \in 1..MaxLogins :
                SESSION_KEY_PREFIX \o ToString(n) \in DOMAIN st}) + 1)

\* handle_login from the return of get_or_refresh_token_for_user (g)
login_after_token(g, username, t) ==
    IF g.ok
    THEN [status |-> 200,
          store |-> clear_failed_logins(
                        create_session(g.store, username,
                                       NewSessionId(g.store), t),
                        username),
          b |-> g.b, seq |-> g.seq,
          calls |-> g.calls, err |-> "none", path |-> g.path]
    ELSE [status |-> 401,
          store |-> record_failed_login(g.store, username, t),
          b |-> g.b, seq |-> g.seq,
          calls |-> g.calls, err |-> g.err, path |-> g.path]

\* handle_login that looks for the token before it acts on the rate check
login_after_rate_check_token_first(rc, b, cfg, t, username, pw_ok, up, seq) ==
    IF ~rc.allowed
    THEN [status |-> 429,
          store |-> record_failed_login(
                        get_or_refresh_token_for_user(
                            rc.store, b, cfg, t, username, pw_ok, up,
                            seq).store,
                        username, t),
          b |-> get_or_refresh_token_for_user(
                    rc.store, b, cfg, t, username, pw_ok, up, seq).b,
          seq |-> get_or_refresh_token_for_user(
                      rc.store, b, cfg, t, username, pw_ok, up, seq).seq,
          calls |-> get_or_refresh_token_for_user(
                        rc.store, b, cfg, t, username, pw_ok, up, seq).calls,
          err |-> "none",
          path |-> get_or_refresh_token_for_user(
                       rc.store, b, cfg, t, username, pw_ok, up, seq).path]
    ELSE login_after_token(
             get_or_refresh_token_for_user(rc.store, b, cfg, t, username,
                                           pw_ok, up, seq),
             username, t)

\* handle_login from the return of check_rate_limit (rc)
login_after_rate_check(rc, b, cfg, t, username, pw_ok, up, seq) ==
    IF ~rc.allowed
    THEN [status |-> 429,
          store |-> record_failed_login(rc.store, username, t),
          b |-> b, seq |-> seq,
          calls |-> <<>>, err |-> "none", path |-> "none"]
    ELSE login_after_token(
             get_or_refresh_token_for_user(rc.store, b, cfg, t, username,
                                           pw_ok, up, seq),
             username, t)

\* handle_login for a request whose body parses and whose credentials pass
\* validate_credentials: the response status and the state it leaves
handle_login(st, b, cfg, t, username, pw_ok, up, seq) ==
    login_after_rate_check(
        check_rate_limit(st, "login_" \o hash_username(username),
                         RATE_LIMIT_PER_USER_HOUR, RATE_WINDOW_SECONDS, t),
        b, cfg, t, username, pw_ok, up, seq)

(***************************************************************************)
(* Gateway JWTs: the claims of the tokens handed to clients.  A token is   *)
(* verified by its signature, so the tokens a request can carry are the    *)
(* issued ones.                                                            *)
(***************************************************************************)
REVOKED_TOKEN_KEY_PREFIX == "revoked_"

\* Uuid::new_v4 for a jti: the k-th unused id
NewJti(issued, k) == "jti" \o ToString(Cardinality(issued) + k)

\* generate_access_token
generate_access_token(username, t, jti) ==
    [sub |-> username, exp |-> t + JWT_ACCESS_TOKEN_EXPIRY, iat |-> t,
     jti |-> jti, token_type |-> "access"]

\* generate_refresh_token
generate_refresh_token(username, t, jti) ==
    [sub |-> username, exp |-> t + JWT_REFRESH_TOKEN_EXPIRY, iat |-> t,
     jti |-> jti, token_type |-> "refresh"]

\* verify_token: the signature is that of an issued token and exp has not
\* passed (the validation leeway is not modelled)
verify_token(claims, t) == t < claims.exp

\* is_token_revoked
is_token_revoked(st, jti) == (REVOKED_TOKEN_KEY_PREFIX \o jti) \in DOMAIN st

\* revoke_token: the stored value is the byte 1
revoke_token(st, jti) == Put(st, REVOKED_TOKEN_KEY_PREFIX \o jti, [revoked |-> 1])

(***************************************************************************)
(* POST /auth/refresh, POST /auth/logout and the protected data endpoint   *)
(* GET /vehicles, for a request that carries the issued JWT with the given *)
(* claims.                                                                 *)
(***************************************************************************)
\* handle_refresh that does not look the token up among the revoked ones
handle_refresh_ignores_revocation(st, claims, t, jti) ==
    IF ~verify_token(claims, t) \/ claims.token_type # "refresh"
    THEN [status |-> 401, issued |-> {}]
    ELSE [status |-> 200,
          issued |-> {generate_access_token(claims.sub, t, jti)}]

\* handle_refresh: the status and the access token handed out
handle_refresh(st, claims, t, jti) ==
    IF ~verify_token(claims, t) \/ claims.token_type # "refresh"
    THEN [status |-> 401, issued |-> {}]
    ELSE IF is_token_revoked(st, claims.jti)
    THEN [status |-> 401, issued |-> {}]
    ELSE [status |-> 200,
          issued |-> {generate_access_token(claims.sub, t, jti)}]

\* handle_logout: the presented token is revoked; nothing else is written
handle_logout(st, claims, t) ==
    IF ~verify_token(claims, t)
    THEN [status |-> 401, store |-> st]
    ELSE [status |-> 200, store |-> revoke_token(st, claims.jti)]

\* fetch_vehicle_list from the return of send_request (c) on outcome o
fetch_done(c, o) ==
    [b |-> c.b,
     ok |-> c.ok /\ StepAccepts("vehicles", o),
     err |-> IF ~c.ok THEN c.err
             ELSE IF StepAccepts("vehicles", o) THEN "none"
             ELSE "rejected",
     calls |-> <<CallRecord("vehicles", c, o)>>]

\* fetch_vehicle_list: one upstream call with the cached access token
fetch_vehicle_list(b, cfg, t, o) ==
    fetch_done(send_request(b, cfg, t, o), o)

\* handle_request from the return of fetch_vehicle_list (f)
request_after_fetch(f, st, entry) ==
    [status |-> IF f.ok THEN 200 ELSE 500, store |-> st, b |-> f.b,
     calls |-> f.calls, err |-> f.err, bearer |-> <<entry>>]

\* handle_request from the return of get_per_user_cached_token (g): an Err
\* leaves the handler through `?`, None is answered 401, and the token of
\* Some(entry) is used as it is
request_with_token(g, st, b, cfg, t, kind) ==
    IF g.err
    THEN [status |-> 500, store |-> st, b |-> b, calls |-> <<>>,
          err |-> "cache", bearer |-> <<>>]
    ELSE IF g.entry = <<>>
    THEN [status |-> 401, store |-> st, b |-> b, calls |-> <<>>,
          err |-> "none", bearer |-> <<>>]
    ELSE request_after_fetch(
             fetch_vehicle_list(b, cfg, t, Response("vehicles", kind, TRUE)),
             st, g.entry[1])

\* handle_request from the return of check_rate_limit (rc)
request_after_rate_check(rc, b, cfg, t, claims, kind) ==
    IF ~rc.allowed
    THEN [status |-> 429, store |-> rc.store, b |-> b, calls |-> <<>>,
          err |-> "none", bearer |-> <<>>]
    ELSE request_with_token(
             get_per_user_cached_token(rc.store, hash_username(claims.sub)),
             rc.store, b, cfg, t, kind)

\* handle_request for GET /vehicles
handle_request(st, b, cfg, t, claims, kind) ==
    IF ~verify_token(claims, t) \/ claims.token_type # "access"
    THEN [status |-> 401, store |-> st, b |-> b, calls |-> <<>>,
          err |-> "none", bearer |-> <<>>]
    ELSE IF is_token_revoked(st, claims.jti)
    THEN [status |-> 401, store |-> st, b |-> b, calls |-> <<>>,
          err |-> "none", bearer |-> <<>>]
    ELSE request_after_rate_check(
             check_rate_limit(st, "api_" \o hash_username(claims.sub),
                              RATE_LIMIT_PER_USER_HOUR, RATE_WINDOW_SECONDS,
                              t),
             b, cfg, t, claims, kind)

(***************************************************************************)
(* History variables                                                       *)
(***************************************************************************)
NoOp ==
    [op |-> "none", via |-> "none", pre |-> new, at |-> 0, ok |-> TRUE,
     retry_after_seconds |-> 0, sent |-> FALSE, outcome |-> NetErr,
     recorded |-> "none"]

\* failRun: number of record_failure calls made since the breaker was last
\* Closed with failure_count = 0, provided no record_success came between
\* (-1 when a record_success broke the run).  The count saturates one past
\* the threshold.
NextFailRun(op, b2) ==
    IF b2.current_state = "Closed" /\ b2.failure_count = 0 THEN 0
    ELSE IF op = "record_success" THEN -1
    ELSE IF op = "record_failure" /\ failRun >= 0
                                 /\ failRun <= config.failure_threshold
    THEN failRun + 1
    ELSE failRun

\* succRun: number of record_success calls made since the last
\* Open -> HalfOpen transition, provided no record_failure came between
\* (-1 outside such a run).  The count saturates one past the threshold.
NextSuccRun(op, b1, b2) ==
    IF b1.current_state = "Open" /\ b2.current_state = "HalfOpen" THEN 0
    ELSE IF op = "record_failure" THEN -1
    ELSE IF op = "record_success" /\ succRun >= 0
                                 /\ succRun <= config.success_threshold
    THEN succRun + 1
    ELSE succRun

NoWin == [start |-> -1, n |-> 0]
Tainted == [start |-> -2, n |-> 0]

NoRateOp ==
    [op |-> "none", key |-> "", at |-> 0, allowed |-> FALSE, pre |-> <<>>,
     win |-> NoWin, fresh |-> FALSE]

\* the rate-limiter part of the state while the breaker model runs
RateIdle ==
    /\ store = EmptyStore
    /\ rl = [limit |-> 1, window_seconds |-> 1]
    /\ rlast = NoRateOp
    /\ gwin = [k \in {} |-> NoWin]

\* the breaker part of the state while only the store is exercised
BreakerIdle ==
    /\ config = DefaultConfig
    /\ breaker = new
    /\ reqs = [r \in Requests |-> "idle"]
    /\ last = NoOp
    /\ failRun = 0
    /\ succRun = -1

\* consecutive failed logins of a user and when the fifth of them happened
NoStreak == [n |-> 0, since |-> -1]

\* cs and entry: the branch taken on, and the content of, the user's cache
\* entry when the request arrived; bearer: the entry whose access token the
\* request used as upstream credential
NoLogin ==
    [op |-> "none", user |-> "", pw_ok |-> FALSE, status |-> 0, at |-> 0,
     calls |-> <<>>, err |-> "none", path |-> "none", prior |-> NoStreak,
     cs |-> "none", entry |-> <<>>, bearer |-> <<>>]

(***************************************************************************)
(* Retry policy (components/retry-logic): pure functions of their          *)
(* arguments.  An error message is the sequence of its characters, so that *)
(* str::contains is a search for a subsequence.  The f64 multiplier is a   *)
(* fraction num/den; the values used and their powers are exact in f64.    *)
(***************************************************************************)
Str_HTTP == <<"H", "T", "T", "P", " ">>
Str_HTTP_4 == <<"H", "T", "T", "P", " ", "4">>
Str_400_series == <<"4", "0", "0", "-", "s", "e", "r", "i", "e", "s">>
Str_Circuit_breaker_is_OPEN ==
    <<"C", "i", "r", "c", "u", "i", "t", " ", "b", "r", "e", "a", "k", "e",
      "r", " ", "i", "s", " ", "O", "P", "E", "N">>
Str_circuit_breaker ==
    <<"c", "i", "r", "c", "u", "i", "t", " ", "b", "r", "e", "a", "k", "e",
      "r">>
Str_Connection_timeout ==
    <<"C", "o", "n", "n", "e", "c", "t", "i", "o", "n", " ", "t", "i", "m",
      "e", "o", "u", "t">>
Str_Network_error ==
    <<"N", "e", "t", "w", "o", "r", "k", " ", "e", "r", "r", "o", "r">>

\* str::contains
Contains(s, pat) ==
    \E i \in 0..(Len(s) - Len(pat)) : SubSeq(s, i + 1, i + Len(pat)) = pat

\* format!("{}", status) for a three-digit status
DigitChars == <<"0", "1", "2", "3", "4", "5", "6", "7", "8", "9">>
StatusDigits(status) ==
    <<DigitChars[(status \div 100) + 1],
      DigitChars[((status \div 10) % 10) + 1],
      DigitChars[(status % 10) + 1]>>

\* The error messages given to should_retry, by the class of the error: an
\* HTTP status ("HTTP 503", as in the message of send_request), the
\* breaker's rejection, and transport failures
RetryStatuses == {400, 401, 403, 404, 429, 500, 502, 503}
ErrorClasses ==
    {[kind |-> "status", status |-> st] : st \in RetryStatuses}
        \cup {[kind |-> k, status |-> 0] :
                 k \in {"breaker_open", "breaker_open_lc", "timeout",
                        "network"}}
ErrorMessage(cls) ==
    CASE cls.kind = "status" -> Str_HTTP \o StatusDigits(cls.status)
      [] cls.kind = "breaker_open" -> Str_Circuit_breaker_is_OPEN
      [] cls.kind = "breaker_open_lc" -> Str_circuit_breaker
      [] cls.kind = "timeout" -> Str_Connection_timeout
      [] cls.kind = "network" -> Str_Network_error

\* should_retry_internal with the attempt limit tested by > instead of >=
should_retry_internal_limit_gt(error_message, attempt, max_attempts) ==
    IF attempt > max_attempts THEN FALSE
    ELSE IF \/ Contains(error_message, Str_Circuit_breaker_is_OPEN)
            \/ Contains(error_message, Str_circuit_breaker)
    THEN FALSE
    ELSE IF \/ Contains(error_message, Str_HTTP_4)
            \/ Contains(error_message, Str_400_series)
    THEN FALSE
    ELSE TRUE

\* should_retry_internal
should_retry_internal(error_message, attempt, max_attempts) ==
    IF attempt >= max_attempts THEN FALSE
    ELSE IF \/ Contains(error_message, Str_Circuit_breaker_is_OPEN)
            \/ Contains(error_message, Str_circuit_breaker)
    THEN FALSE
    ELSE IF \/ Contains(error_message, Str_HTTP_4)
            \/ Contains(error_message, Str_400_series)
    THEN FALSE
    ELSE TRUE

\* is_retryable_status_internal
is_retryable_status_internal(status_code) ==
    IF status_code \in 200..299 THEN FALSE
    ELSE IF status_code \in 300..399 THEN FALSE
    ELSE IF status_code = 429 THEN TRUE
    ELSE IF status_code \in 400..499 THEN FALSE
    ELSE IF status_code \in 500..599 THEN TRUE
    ELSE FALSE

RECURSIVE Pow(_, _)
Pow(b, e) == IF e = 0 THEN 1 ELSE b * Pow(b, e - 1)

Min(a, b) == IF a <= b THEN a ELSE b

\* the multipliers explored: 1/2, 1, 3/2, 2 (the default) and 3
DEFAULT_MULTIPLIER == [num |-> 2, den |-> 1]
Multipliers ==
    {[num |-> 1, den |-> 2], [num |-> 1, den |-> 1], [num |-> 3, den |-> 2],
     DEFAULT_MULTIPLIER, [num |-> 3, den |-> 1]}

RetryConfigs ==
    [max_attempts : {DEFAULT_MAX_ATTEMPTS},
     initial_delay_ms : {1, DEFAULT_INITIAL_DELAY_MS},
     max_delay_ms : {500, DEFAULT_MAX_DELAY_MS},
     multiplier : Multipliers]

\* Guest::get_default_config
get_default_config ==
    [max_attempts |-> DEFAULT_MAX_ATTEMPTS,
     initial_delay_ms |-> DEFAULT_INITIAL_DELAY_MS,
     max_delay_ms |-> DEFAULT_MAX_DELAY_MS,
     multiplier |-> DEFAULT_MULTIPLIER]

\* calculate_backoff_internal with attempt as the exponent
calculate_backoff_internal_exponent_attempt(attempt, cfg) ==
    IF attempt = 0 THEN 0
    ELSE Min((cfg.initial_delay_ms * Pow(cfg.multiplier.num, attempt))
                 \div Pow(cfg.multiplier.den, attempt),
             cfg.max_delay_ms)

\* calculate_backoff_internal: the product is computed in f64, capped by
\* f64::min and truncated by the cast to u64
calculate_backoff_internal(attempt, cfg) ==
    IF attempt = 0 THEN 0
    ELSE Min((cfg.initial_delay_ms * Pow(cfg.multiplier.num, attempt - 1))
                 \div Pow(cfg.multiplier.den, attempt - 1),
             cfg.max_delay_ms)

\* the latest call of the retry policy: its arguments and its result, and
\* for calculate_backoff the call before it under the same configuration
NoRetryCall ==
    [op |-> "none", cls |-> [kind |-> "none", status |-> 0],
     error_message |-> <<>>, attempt |-> 0, max_attempts |-> 0,
     retry |-> FALSE, delay |-> 0, prev_attempt |-> 0, prev_delay |-> 0]

RetryIdle == [config |-> get_default_config, call |-> NoRetryCall]

\* the two requests that can be in flight at once
Workers == {"A", "B"}

\* the locals of a request: where it is suspended, its current_time, the
\* value its store.get returned and the value it will store.set
IdleWorker ==
    [pc |-> "idle", t |-> 0, pre |-> <<>>, pend |-> <<>>, pw_ok |-> FALSE]

NoRaceOp == [op |-> "none", who |-> "", key |-> "", val |-> <<>>]

\* epi: the requests begun since the store was last quiescent; shadow: the
\* rate record that running their check_rate_limit calls one after the
\* other would have left, and sok: how many of those calls that run
\* allows; rok: how many were allowed; flows: the login flows they ran;
\* last: the latest store operation
RaceIdle ==
    [w |-> [x \in Workers |-> IdleWorker], shadow |-> <<>>, epi |-> 0,
     begun |-> 0, sok |-> 0, rok |-> 0, flows |-> 0, last |-> NoRaceOp]

(***************************************************************************)
(* CircuitBreaker of components/circuit-breaker: the second copy of the    *)
(* breaker, exported as a component of its own.                            *)
(***************************************************************************)
\* CircuitBreaker::new (components/circuit-breaker)
new_component ==
    [current_state |-> "Closed", failure_count |-> 0,
     success_count |-> 0, last_failure_time |-> 0]

\* CircuitBreaker::can_attempt (components/circuit-breaker)
can_attempt_component(b, cfg, t) ==
    CASE b.current_state = "Closed" ->
            [b |-> b, ok |-> TRUE, retry_after_seconds |-> 0]
      [] b.current_state = "Open" ->
            IF t - b.last_failure_time >= cfg.timeout_seconds
            THEN [b |-> [b EXCEPT !.current_state = "HalfOpen",
                                  !.success_count = 0],
                  ok |-> TRUE, retry_after_seconds |-> 0]
            ELSE [b |-> b, ok |-> FALSE,
                  retry_after_seconds |->
                      cfg.timeout_seconds - (t - b.last_failure_time)]
      [] b.current_state = "HalfOpen" ->
            [b |-> b, ok |-> TRUE, retry_after_seconds |-> 0]

\* record_success that counts a success while Closed
record_success_component_counts_closed(b, cfg) ==
    CASE b.current_state = "Closed" ->
            [b EXCEPT !.failure_count = 0,
                      !.success_count = b.success_count + 1]
      [] b.current_state = "HalfOpen" ->
            IF b.success_count + 1 >= cfg.success_threshold
            THEN [b EXCEPT !.current_state = "Closed",
                           !.failure_count = 0, !.success_count = 0]
            ELSE [b EXCEPT !.success_count = b.success_count + 1]
      [] b.current_state = "Open" -> b

\* CircuitBreaker::record_success (components/circuit-breaker): the Closed
\* arm assigns failure_count without testing it
record_success_component(b, cfg) ==
    CASE b.current_state = "Closed" -> [b EXCEPT !.failure_count = 0]
      [] b.current_state = "HalfOpen" ->
            IF b.success_count + 1 >= cfg.success_threshold
            THEN [b EXCEPT !.current_state = "Closed",
                           !.failure_count = 0, !.success_count = 0]
            ELSE [b EXCEPT !.success_count = b.success_count + 1]
      [] b.current_state = "Open" -> b

\* CircuitBreaker::record_failure (components/circuit-breaker)
record_failure_component(b, cfg, t) ==
    CASE b.current_state = "Closed" ->
            IF b.failure_count + 1 >= cfg.failure_threshold
            THEN [b EXCEPT !.current_state = "Open",
                           !.failure_count = b.failure_count + 1,
                           !.last_failure_time = t]
            ELSE [b EXCEPT !.failure_count = b.failure_count + 1,
                           !.last_failure_time = t]
      [] b.current_state = "HalfOpen" ->
            [b EXCEPT !.current_state = "Open", !.failure_count = 1,
                      !.success_count = 0, !.last_failure_time = t]
      [] b.current_state = "Open" ->
            [b EXCEPT !.last_failure_time = t]

\* the component's breaker (b) before its first call; pre: its state before
\* its latest call, ok and retry_after_seconds: what that call returned
ComponentIdle ==
    [b |-> new_component, pre |-> new_component, op |-> "none", ok |-> TRUE,
     retry_after_seconds |-> 0]

(***************************************************************************)
(* METRICS.active_sessions: an AtomicU64, held as four 16-bit limbs, the   *)
(* least significant first; fetch_add and fetch_sub wrap around.           *)
(***************************************************************************)
LimbBase == 65536

U64Zero == <<0, 0, 0, 0>>

\* the u64 of a number below LimbBase
U64Of(n) == <<n, 0, 0, 0>>

RECURSIVE fetch_add_1(_)
fetch_add_1(v) ==
    IF v = <<>> THEN <<>>
    ELSE IF Head(v) + 1 < LimbBase THEN <<Head(v) + 1>> \o Tail(v)
    ELSE <<0>> \o fetch_add_1(Tail(v))

RECURSIVE fetch_sub_1(_)
fetch_sub_1(v) ==
    IF v = <<>> THEN <<>>
    ELSE IF Head(v) > 0 THEN <<Head(v) - 1>> \o Tail(v)
    ELSE <<LimbBase - 1>> \o fetch_sub_1(Tail(v))

\* Metrics::increment_active_sessions
increment_active_sessions(v) == fetch_add_1(v)

\* Metrics::decrement_active_sessions
decrement_active_sessions(v) == fetch_sub_1(v)

\* logins: the logins answered 200; owner: for each jti, the login its
\* token goes back to; revoked: the jtis of the tokens a logout has revoked;
\* presented: the claims of the token the latest request carried
NoSessions ==
    [logins |-> 0, owner |-> [j \in {} |-> 0], revoked |-> {},
     presented |-> <<>>]

\* the provider may still fail
NoRecovery == [recovered |-> FALSE, found |-> "Closed"]

\* no CachedToken built yet
NoToken ==
    [op |-> "none", issued_at |-> 0, expires_in |-> 0, token |-> <<>>,
     at |-> 0, expired |-> FALSE]

\* the login part of the state while no login request is modelled
LoginIdle ==
    /\ race = RaceIdle
    /\ retry = RetryIdle
    /\ tq = NoToken
    /\ cb = ComponentIdle
    /\ health = NoRecovery
    /\ active_sessions = U64Zero
    /\ sess = NoSessions
    /\ nLogins = 0
    /\ tokSeq = 0
    /\ streak = [u \in Users |-> NoStreak]
    /\ lres = NoLogin
    /\ jwts = {}

Track(op, b2) ==
    /\ breaker' = b2
    /\ failRun' = NextFailRun(op, b2)
    /\ succRun' = NextSuccRun(op, breaker, b2)

(***************************************************************************)
(* Actions of the breaker model                                            *)
(***************************************************************************)
BInit ==
    /\ now = 0
    /\ config \in Configs
    /\ breaker = new
    /\ reqs = [r \in Requests |-> "idle"]
    /\ last = NoOp
    /\ failRun = 0
    /\ succRun = -1
    /\ RateIdle
    /\ LoginIdle

Tick ==
    /\ now < MaxTime
    /\ now' = now + 1
    /\ UNCHANGED <<config, breaker, reqs, last, failRun, succRun>>

\* Guest::can_attempt, the exported breaker interface called on its own
GuestCanAttempt ==
    LET r == can_attempt(breaker, config, now)
    IN  /\ Track("can_attempt", r.b)
        /\ last' = [NoOp EXCEPT !.op = "can_attempt", !.via = "guest",
                        !.pre = breaker, !.at = now, !.ok = r.ok,
                        !.retry_after_seconds = r.retry_after_seconds]
        /\ UNCHANGED <<now, config, reqs>>

\* Guest::record_success
GuestRecordSuccess ==
    /\ Track("record_success", record_success(breaker, config))
    /\ last' = [NoOp EXCEPT !.op = "record_success", !.via = "guest",
                    !.pre = breaker, !.at = now, !.recorded = "success"]
    /\ UNCHANGED <<now, config, reqs>>

\* Guest::record_failure
GuestRecordFailure ==
    /\ Track("record_failure", record_failure(breaker, config, now))
    /\ last' = [NoOp EXCEPT !.op = "record_failure", !.via = "guest",
                    !.pre = breaker, !.at = now, !.recorded = "failure"]
    /\ UNCHANGED <<now, config, reqs>>

\* send_request, entry to the await on spin_sdk::http::send
SendRequestBegin(r) ==
    /\ reqs[r] = "idle"
    /\ LET g == send_request_gate(breaker, config, now)
       IN  /\ Track("can_attempt", g.b)
           /\ reqs' = [reqs EXCEPT ![r] = IF g.sent THEN "inflight" ELSE "idle"]
           /\ last' = [NoOp EXCEPT !.op = "can_attempt", !.via = "send_request",
                           !.pre = breaker, !.at = now, !.ok = g.ok,
                           !.sent = g.sent,
                           !.retry_after_seconds = g.retry_after_seconds]
    /\ UNCHANGED <<now, config>>

\* send_request, from the completion of the upstream call to its return
SendRequestEnd(r, o) ==
    /\ reqs[r] = "inflight"
    /\ LET e == send_request_result(breaker, config, now, o)
       IN  /\ Track(IF e.recorded = "none" THEN "none"
                    ELSE "record_" \o e.recorded, e.b)
           /\ reqs' = [reqs EXCEPT ![r] = "idle"]
           /\ last' = [NoOp EXCEPT !.op = "send_request_result",
                           !.via = "send_request", !.pre = breaker,
                           !.at = now, !.ok = e.ok, !.sent = TRUE,
                           !.outcome = o, !.recorded = e.recorded]
    /\ UNCHANGED <<now, config>>

BNext ==
    /\ \/ Tick
       \/ GuestCanAttempt
       \/ GuestRecordSuccess
       \/ GuestRecordFailure
       \/ \E r \in Requests : SendRequestBegin(r)
       \/ \E r \in Requests, o \in Outcomes : SendRequestEnd(r, o)
    /\ UNCHANGED rvars
    /\ UNCHANGED lvars

Spec == BInit /\ [][BNext]_vars

(***************************************************************************)
(* Actions of the rate-limiter model: check_rate_limit and the failed-     *)
(* login counter called on their own, with limit and window_seconds drawn  *)
(* from small ranges.  The identifiers are chosen so that the key of       *)
(* record_failed_login("a") is the key of check_rate_limit("login_a").     *)
(***************************************************************************)
CheckIdents == {"login_a", "api_a"}
FailIdents == {"a"}

\* The window as a caller counts it: the time of the first call of the
\* window and the number of check_rate_limit calls made in it so far.
NextWin(g, t, window_seconds, limit) ==
    IF g = Tainted THEN Tainted
    ELSE IF g = NoWin \/ t - g.start > window_seconds
    THEN [start |-> t, n |-> 1]
    ELSE [start |-> g.start, n |-> IF g.n <= limit THEN g.n + 1 ELSE g.n]

\* the count held under a rate-limit key, 0 when the key is missing
StoredCount(st, key) == IF key \in DOMAIN st THEN st[key].count ELSE 0

RInit ==
    /\ now = 0
    /\ store = EmptyStore
    /\ rl \in [limit : 1..MaxLimit, window_seconds : 1..MaxWindow]
    /\ rlast = NoRateOp
    /\ gwin = [k \in {RateKey(i) : i \in CheckIdents} |-> NoWin]
    /\ BreakerIdle
    /\ LoginIdle

\* The clock values explored: up to RateHorizon seconds after time 0 and
\* after the end of a lockout that began then.
RateClock ==
    {t \in 0..(RATE_LIMIT_LOGIN_LOCKOUT_SECONDS + RateHorizon) :
        t % RATE_LIMIT_LOGIN_LOCKOUT_SECONDS <= RateHorizon}

RTick(d) ==
    /\ now + d \in RateClock
    /\ now' = now + d
    /\ UNCHANGED rvars

CheckRateLimit(i) ==
    LET key == RateKey(i)
        r == check_rate_limit(store, i, rl.limit, rl.window_seconds, now)
        g == NextWin(gwin[key], now, rl.window_seconds, rl.limit)
    IN  /\ store' = r.store
        /\ gwin' = [gwin EXCEPT ![key] = g]
        /\ rlast' = [op |-> "check_rate_limit", key |-> key, at |-> now,
                     allowed |-> r.allowed, pre |-> Get(store, key),
                     win |-> g,
                     fresh |-> (g # Tainted /\ g.n = 1)]
        /\ UNCHANGED <<now, rl>>

RecordFailedLogin(i) ==
    LET key == RateKey("login_" \o i)
    IN  /\ StoredCount(store, key) < MaxFailCount
        /\ store' = record_failed_login(store, i, now)
        /\ gwin' = [gwin EXCEPT ![key] = Tainted]
        /\ rlast' = [op |-> "record_failed_login", key |-> key, at |-> now,
                     allowed |-> FALSE, pre |-> Get(store, key),
                     win |-> Tainted, fresh |-> FALSE]
        /\ UNCHANGED <<now, rl>>

ClearFailedLogins(i) ==
    LET key == RateKey("login_" \o i)
    IN  /\ store' = clear_failed_logins(store, i)
        /\ gwin' = [gwin EXCEPT ![key] = NoWin]
        /\ rlast' = [op |-> "clear_failed_logins", key |-> key, at |-> now,
                     allowed |-> FALSE, pre |-> Get(store, key),
                     win |-> NoWin, fresh |-> FALSE]
        /\ UNCHANGED <<now, rl>>

RNext ==
    /\ \/ \E d \in {1, RATE_LIMIT_LOGIN_LOCKOUT_SECONDS} : RTick(d)
       \/ \E i \in CheckIdents : CheckRateLimit(i)
       \/ \E i \in FailIdents : RecordFailedLogin(i)
       \/ \E i \in FailIdents : ClearFailedLogins(i)
    /\ UNCHANGED <<config, breaker, reqs, last, failRun, succRun>>
    /\ UNCHANGED lvars

SpecRate == RInit /\ [][RNext]_vars

(***************************************************************************)
(* Actions of the login model: POST /auth/login requests handled one at a  *)
(* time against the shared store and the process-wide breaker with its     *)
(* default configuration.                                                  *)
(***************************************************************************)
\* the instants at which requests arrive
LoginClock == {0, 60, 900, 3540, 3601}

NextStreak(sk, status, t) ==
    IF status = 200 THEN NoStreak
    ELSE IF status \in {401, 429}
    THEN IF sk.n + 1 = RATE_LIMIT_LOGIN_ATTEMPTS
         THEN [n |-> sk.n + 1, since |-> t]
         ELSE IF sk.n >= RATE_LIMIT_LOGIN_ATTEMPTS THEN sk
         ELSE [n |-> sk.n + 1, since |-> sk.since]
    ELSE sk

LInit ==
    /\ now = 0
    /\ config = DefaultConfig
    /\ breaker = new
    /\ reqs = [r \in Requests |-> "idle"]
    /\ last = NoOp
    /\ failRun = 0
    /\ succRun = -1
    /\ store = EmptyStore
    /\ rl = [limit |-> RATE_LIMIT_PER_USER_HOUR,
             window_seconds |-> RATE_WINDOW_SECONDS]
    /\ rlast = NoRateOp
    /\ gwin = [k \in {} |-> NoWin]
    /\ LoginIdle

LTick ==
    /\ \E t \in LoginClock : t > now /\ now' = t
    /\ UNCHANGED <<breaker, store, nLogins, tokSeq, streak, lres, jwts,
                   active_sessions, sess>>

AllOk == [s \in Steps |-> "ok"]

\* The provider's answers matter only for the calls the request makes:
\* none for a cache hit, a refresh only for a stale entry, the login flow
\* only when no refresh succeeds, and of the login flow nothing after the
\* credential submission when the password is wrong.
UpstreamsFor(cs, pw_ok) ==
    LET reached == {up \in Upstreams :
                       ~pw_ok => up["authorize"] = "ok" /\ up["exchange"] = "ok"}
    IN  IF cs \in {"hit", "corrupt"} THEN {AllOk}
        ELSE IF cs = "stale"
        THEN {AllOk} \cup {up \in reached : up["refresh"] # "ok"}
        ELSE {up \in reached : up["refresh"] = "ok"}

HandleLogin(username, pw_ok, up) ==
    /\ nLogins < MaxLogins
    /\ \E r \in {handle_login(store, breaker, config, now, username, pw_ok,
                               up, tokSeq)} :
        /\ nLogins' = nLogins + 1
        /\ store' = r.store
        /\ breaker' = r.b
        /\ tokSeq' = r.seq
        /\ streak' = [streak EXCEPT
                          ![username] = NextStreak(@, r.status, now)]
        /\ lres' = [op |-> "handle_login", user |-> username,
                    pw_ok |-> pw_ok, status |-> r.status, at |-> now,
                    calls |-> r.calls, err |-> r.err, path |-> r.path,
                    prior |-> streak[username],
                    cs |-> CacheStatus(store, username, now),
                    entry |-> Get(store, get_user_token_cache_key(
                                             hash_username(username))),
                    bearer |-> <<>>]
        /\ jwts' = IF r.status = 200
                   THEN jwts \cup
                        {generate_access_token(username, now, NewJti(jwts, 1)),
                         generate_refresh_token(username, now, NewJti(jwts, 2))}
                   ELSE jwts
        /\ active_sessions' = IF r.status = 200
                              THEN increment_active_sessions(active_sessions)
                              ELSE active_sessions
        /\ sess' = IF r.status = 200
                   THEN [sess EXCEPT
                            !.logins = sess.logins + 1,
                            !.owner = (NewJti(jwts, 1) :> sess.logins + 1)
                                      @@ (NewJti(jwts, 2) :> sess.logins + 1)
                                      @@ sess.owner,
                            !.presented = <<>>]
                   ELSE [sess EXCEPT !.presented = <<>>]
        /\ UNCHANGED now

LNext ==
    /\ \/ LTick
       \/ \E u \in Users, pw_ok \in BOOLEAN :
             \E up \in UpstreamsFor(CacheStatus(store, u, now), pw_ok) :
                 HandleLogin(u, pw_ok, up)
    /\ UNCHANGED <<config, reqs, last, failRun, succRun, rl, rlast, gwin,
                   race, retry, tq, cb, health>>

SpecLogin == LInit /\ [][LNext]_vars

(***************************************************************************)
(* Actions of the token-cache model: logins, JWT refreshes, logouts and    *)
(* data requests handled one at a time, and the store returning bytes that *)
(* are not a cache entry.                                                  *)
(***************************************************************************)
CacheKeyOf(username) == get_user_token_cache_key(hash_username(username))

\* the history record of a request made with a JWT
JwtRequest(op, claims, status) ==
    [NoLogin EXCEPT !.op = op, !.user = claims.sub, !.status = status,
                    !.at = now,
                    !.cs = CacheStatus(store, claims.sub, now),
                    !.entry = Get(store, CacheKeyOf(claims.sub))]

CacheLogin(username, pw_ok, up) ==
    /\ nLogins < MaxRequests
    /\ HandleLogin(username, pw_ok, up)

HandleRefresh(claims) ==
    /\ nLogins < MaxRequests
    /\ \E r \in {handle_refresh(store, claims, now, NewJti(jwts, 1))} :
        /\ nLogins' = nLogins + 1
        /\ jwts' = jwts \cup r.issued
        /\ lres' = JwtRequest("handle_refresh", claims, r.status)
        /\ sess' = IF r.status = 200
                   THEN [sess EXCEPT
                            !.owner = (NewJti(jwts, 1) :> sess.owner[claims.jti])
                                      @@ sess.owner,
                            !.presented = <<claims>>]
                   ELSE [sess EXCEPT !.presented = <<claims>>]
        /\ UNCHANGED <<now, breaker, store, tokSeq, streak, active_sessions>>

HandleLogout(claims) ==
    /\ nLogins < MaxRequests
    /\ \E r \in {handle_logout(store, claims, now)} :
        /\ nLogins' = nLogins + 1
        /\ store' = r.store
        /\ lres' = JwtRequest("handle_logout", claims, r.status)
        /\ active_sessions' = IF r.status = 200
                              THEN decrement_active_sessions(active_sessions)
                              ELSE active_sessions
        /\ sess' = IF r.status = 200
                   THEN [sess EXCEPT
                            !.revoked = sess.revoked \cup {claims.jti},
                            !.presented = <<claims>>]
                   ELSE [sess EXCEPT !.presented = <<claims>>]
        /\ UNCHANGED <<now, breaker, tokSeq, streak, jwts>>

HandleRequest(claims, kind) ==
    /\ nLogins < MaxRequests
    /\ \E r \in {handle_request(store, breaker, config, now, claims, kind)} :
        /\ nLogins' = nLogins + 1
        /\ store' = r.store
        /\ breaker' = r.b
        /\ lres' = [JwtRequest("handle_request", claims, r.status) EXCEPT
                        !.calls = r.calls, !.err = r.err,
                        !.bearer = r.bearer]
        /\ sess' = [sess EXCEPT !.presented = <<claims>>]
        /\ UNCHANGED <<now, tokSeq, streak, jwts, active_sessions>>

\* the store comes to hold unreadable bytes under a user's cache key
CorruptEntry(username) ==
    /\ CacheKeyOf(username) \in DOMAIN store
    /\ Deserializes(store[CacheKeyOf(username)])
    /\ store' = Put(store, CacheKeyOf(username), CorruptValue)
    /\ lres' = [NoLogin EXCEPT !.op = "corrupt", !.user = username,
                               !.at = now]
    /\ UNCHANGED <<now, breaker, nLogins, tokSeq, streak, jwts,
                   active_sessions, sess>>

CNext ==
    /\ \/ LTick
       \/ \E u \in Users, pw_ok \in BOOLEAN :
             \E up \in UpstreamsFor(CacheStatus(store, u, now), pw_ok) :
                 CacheLogin(u, pw_ok, up)
       \/ \E j \in jwts : HandleRefresh(j)
       \/ \E j \in jwts : HandleLogout(j)
       \/ \E j \in jwts, kind \in Kinds : HandleRequest(j, kind)
       \/ \E u \in Users : CorruptEntry(u)
    /\ UNCHANGED <<config, reqs, last, failRun, succRun, rl, rlast, gwin,
                   race, retry, tq, cb, health>>

SpecCache == LInit /\ [][CNext]_vars

(***************************************************************************)
(* Properties of the breaker and of send_request                           *)
(***************************************************************************)

\* C1: from a Closed breaker with failure_count 0, a run of record_failure
\* calls with no record_success in between leaves the breaker Closed after
\* each of the first failure_threshold - 1 calls, and the call that makes
\* the run failure_threshold long is the one that moves it Closed -> Open.
C1_OpensExactlyAtThreshold ==
    failRun >= 0 =>
        /\ (failRun < config.failure_threshold
                => breaker.current_state = "Closed")
        /\ (failRun >= config.failure_threshold
                => breaker.current_state # "Closed")
        /\ (failRun = config.failure_threshold /\ last.recorded = "failure"
                => /\ last.pre.current_state = "Closed"
                   /\ breaker.current_state = "Open")

C1_Witness ==
    /\ config.failure_threshold >= 2
    /\ failRun = config.failure_threshold
    /\ last.recorded = "failure"
    /\ last.pre.current_state = "Closed"
    /\ breaker.current_state = "Open"

\* C2: can_attempt on an Open breaker is rejected and leaves it Open while
\* now - last_failure_time < timeout_seconds; once
\* now - last_failure_time >= timeout_seconds it is allowed, the state
\* becomes HalfOpen and success_count is 0.
C2_OpenGate ==
    (last.op = "can_attempt" /\ last.pre.current_state = "Open") =>
        IF last.at - last.pre.last_failure_time < config.timeout_seconds
        THEN ~last.ok /\ breaker = last.pre
        ELSE /\ last.ok
             /\ breaker.current_state = "HalfOpen"
             /\ breaker.success_count = 0

C2_Witness ==
    /\ last.op = "can_attempt"
    /\ last.pre.current_state = "Open"
    /\ last.at - last.pre.last_failure_time = config.timeout_seconds
    /\ last.ok
    /\ breaker.current_state = "HalfOpen"

\* C3: after Open -> HalfOpen, a run of record_success calls with no
\* record_failure in between keeps the breaker HalfOpen while the run is
\* shorter than success_threshold, and the call that makes it
\* success_threshold long leaves the breaker Closed with both counters 0.
C3_ClosesExactlyAtThreshold ==
    succRun >= 0 =>
        /\ (succRun < config.success_threshold
                => breaker.current_state = "HalfOpen")
        /\ (succRun = config.success_threshold /\ last.recorded = "success"
                => /\ breaker.current_state = "Closed"
                   /\ breaker.failure_count = 0
                   /\ breaker.success_count = 0)

C3_Witness ==
    /\ config.success_threshold >= 2
    /\ succRun = config.success_threshold
    /\ last.recorded = "success"
    /\ last.pre.current_state = "HalfOpen"
    /\ breaker.current_state = "Closed"

\* C4: a record_failure on a HalfOpen breaker leaves it Open with
\* failure_count 1, success_count 0 and last_failure_time = now, whatever
\* success_count was.
C4_HalfOpenFailure ==
    (last.recorded = "failure" /\ last.pre.current_state = "HalfOpen") =>
        breaker = [current_state |-> "Open", failure_count |-> 1,
                   success_count |-> 0, last_failure_time |-> last.at]

C4_Witness ==
    /\ last.recorded = "failure"
    /\ last.pre.current_state = "HalfOpen"
    /\ last.pre.success_count >= 1
    /\ last.pre.failure_count >= 2
    /\ breaker.current_state = "Open"

\* C5: under every interleaving of concurrent send_request calls (and
\* direct calls) on the shared breaker, a Closed breaker has
\* failure_count < failure_threshold.
C5_ClosedBelowThreshold ==
    breaker.current_state = "Closed" =>
        breaker.failure_count < config.failure_threshold

C5_Witness ==
    /\ last.via = "send_request"
    /\ last.recorded = "failure"
    /\ last.pre.current_state = "Closed"
    /\ last.pre.failure_count = config.failure_threshold - 1
    /\ breaker.current_state = "Open"
    /\ \E r \in Requests : reqs[r] = "inflight"

\* C6: when can_attempt rejects, send_request sends nothing upstream,
\* leaves the breaker as it was, and the error's retry_after_seconds is
\* timeout_seconds - (now - last_failure_time), a value in
\* 1..timeout_seconds.
C6_FailFast ==
    (last.op = "can_attempt" /\ last.via = "send_request" /\ ~last.ok) =>
        /\ ~last.sent
        /\ breaker = last.pre
        /\ last.retry_after_seconds =
               config.timeout_seconds - (last.at - last.pre.last_failure_time)
        /\ last.retry_after_seconds \in 1..config.timeout_seconds

C6_Witness ==
    /\ last.op = "can_attempt"
    /\ last.via = "send_request"
    /\ ~last.ok
    /\ last.pre.current_state = "Open"
    /\ last.retry_after_seconds < config.timeout_seconds

\* C7: for an upstream call that was sent, record_failure is called iff
\* the outcome is a 5xx status or a transport error, record_success iff
\* the status is 2xx, and a 4xx status (429 included) records nothing and
\* leaves the breaker unchanged.
C7_OutcomeClassification ==
    last.op = "send_request_result" =>
        /\ (last.recorded = "failure"
                <=> (last.outcome.err \/ last.outcome.status \in 500..599))
        /\ (last.recorded = "success"
                <=> (~last.outcome.err /\ last.outcome.status \in 200..299))
        /\ (~last.outcome.err /\ last.outcome.status \in 400..499
                => last.recorded = "none" /\ breaker = last.pre)

C7_Witness ==
    /\ last.op = "send_request_result"
    /\ ~last.outcome.err
    /\ last.outcome.status = 429
    /\ last.recorded = "none"
    /\ last.pre.current_state = "Closed"
    /\ last.pre.failure_count >= 1
    /\ breaker = last.pre

(***************************************************************************)
(* Properties of the rate limiter                                          *)
(***************************************************************************)

\* C10: for a key that carries no lockout, counted from the first call of
\* a window: the calls made while now - window_start <= window_seconds are
\* allowed exactly when they are among the first `limit` of the window;
\* the first call with now - window_start > window_seconds is allowed and
\* leaves count = 1 (restarted from zero), window_start = now in the store.
C10_WindowAdmitsExactlyLimit ==
    (rlast.op = "check_rate_limit" /\ rlast.win # Tainted) =>
        /\ rlast.allowed <=> rlast.win.n <= rl.limit
        /\ rlast.fresh =>
               /\ rlast.allowed
               /\ Get(store, rlast.key) =
                      <<[count |-> 1, window_start |-> rlast.at,
                         lockout_until |-> <<>>]>>

C10_Witness ==
    /\ rlast.op = "check_rate_limit"
    /\ rlast.fresh
    /\ rlast.allowed
    /\ rlast.pre # <<>>
    /\ rlast.pre[1].count = rl.limit
    /\ rlast.at - rlast.pre[1].window_start = rl.window_seconds + 1
    /\ rl.limit >= 2

(***************************************************************************)
(* Properties of POST /auth/login                                          *)
(***************************************************************************)

\* the calls of the last request that were made for the step at which its
\* flow ended
AttemptsOfLastStep ==
    {i \in DOMAIN lres.calls :
        lres.calls[i].step = lres.calls[Len(lres.calls)].step}

\* C8: every call of the login and refresh flows goes through the breaker
\* gate before it is sent and, when sent, has its outcome classified on the
\* breaker; a flow that is aborted on a transient failure (5xx status,
\* transport error) has by then made DEFAULT_MAX_ATTEMPTS attempts at the
\* failing call.
C8_RetriedBeforeAbort ==
    lres.op = "handle_login" =>
        /\ \A i \in DOMAIN lres.calls :
               lres.calls[i].sent \/ lres.calls[i].recorded = "none"
        /\ (lres.err \in {"server", "transport"}
                => Cardinality(AttemptsOfLastStep) >= DEFAULT_MAX_ATTEMPTS)

\* C9: once five logins in a row have failed for a user, a login of that
\* user arriving less than RATE_LIMIT_LOGIN_LOCKOUT_SECONDS after the fifth
\* failure is denied, whatever its password.
C9_LockoutDeniesLogin ==
    (/\ lres.op = "handle_login"
     /\ lres.prior.n >= RATE_LIMIT_LOGIN_ATTEMPTS
     /\ lres.at < lres.prior.since + RATE_LIMIT_LOGIN_LOCKOUT_SECONDS)
        => lres.status # 200

(***************************************************************************)
(* Properties of the store contents and of the token cache                 *)
(***************************************************************************)

\* the keys that are a key prefix followed by a raw username
RawUsernameKeys ==
    {pre \o u : pre \in {RATE_LIMIT_KEY_PREFIX, RATE_LIMIT_KEY_PREFIX \o "login_",
                         RATE_LIMIT_KEY_PREFIX \o "api_",
                         TOKEN_CACHE_KEY_PREFIX, SESSION_KEY_PREFIX,
                         REVOKED_TOKEN_KEY_PREFIX},
                u \in Users}

\* the stored value carries a raw username
HoldsRawUsername(v) ==
    \/ "username" \in DOMAIN v /\ v.username \in Users
    \/ "token" \in DOMAIN v /\ v.token.uuid \in Users

\* C11: no key of the store is built from a raw username and no stored
\* value carries one.
C11_NoRawUsernameStored ==
    \A k \in DOMAIN store :
        /\ k \notin RawUsernameKeys
        /\ ~HoldsRawUsername(store[k])

\* C12: a request that finds unreadable bytes under the user's cache key
\* goes on as on a miss; the deserialization failure is never what the
\* request fails with.
C12_CorruptEntryIsMiss ==
    (lres.op \in {"handle_login", "handle_request"} /\ lres.cs = "corrupt")
        => lres.err # "cache"

\* C13: the cached provider token that a data request sends upstream as
\* bearer credential comes from an entry that is neither inactivity-expired
\* nor absolute-expired at the time of the request.
C13_BearerNotExpired ==
    (/\ lres.op = "handle_request"
     /\ lres.bearer # <<>>
     /\ lres.calls[1].sent)
        => /\ ~is_ttl_expired(lres.bearer[1], lres.at)
           /\ ~is_expired(lres.bearer[1].token, lres.at)

\* a login request that got as far as the cache lookup
LookedUp(cs) ==
    /\ lres.op = "handle_login"
    /\ lres.status # 429
    /\ lres.cs = cs

C15_StaleRefreshesFirst ==
    /\ LookedUp("stale") =>
           /\ ~is_ttl_expired(lres.entry[1], lres.at)
           /\ is_expired(lres.entry[1].token, lres.at)
           /\ lres.calls # <<>>
           /\ lres.calls[1].step = "refresh"
           /\ \A i \in DOMAIN lres.calls :
                  i > 1 => lres.calls[i].step # "refresh" /\ ~lres.calls[1].ok
           /\ ~lres.calls[1].ok => Len(lres.calls) > 1
    /\ LookedUp("absent") =>
           lres.calls # <<>> /\ lres.calls[1].step = "initiate"

C15_Witness ==
    /\ LookedUp("stale")
    /\ lres.calls[1].sent
    /\ ~lres.calls[1].ok
    /\ Len(lres.calls) = 5
    /\ lres.status = 200

\* C16: when the lookup finds an entry that is neither inactivity-expired
\* nor absolute-expired, no upstream call is made, the request succeeds,
\* and the stored entry is the one found with last_accessed = now.
C16_HitTouchesEntry ==
    LookedUp("hit") =>
        /\ lres.calls = <<>>
        /\ lres.status = 200
        /\ store[CacheKeyOf(lres.user)] =
               [lres.entry[1] EXCEPT !.last_accessed = lres.at]

C16_Witness ==
    /\ LookedUp("hit")
    /\ lres.at > lres.entry[1].last_accessed
    /\ store[CacheKeyOf(lres.user)].last_accessed = lres.at
    /\ store[CacheKeyOf(lres.user)].token = lres.entry[1].token

\* C17: after a logout that was accepted, the store holds no token-cache
\* entry for the user who logged out.
C17_LogoutRemovesEntry ==
    (lres.op = "handle_logout" /\ lres.status = 200)
        => CacheKeyOf(lres.user) \notin DOMAIN store

\* C18: when the refresh for a stale entry fails, the entry is removed: the
\* store then holds no entry for the user unless the full login that
\* follows succeeded, in which case it holds the newly issued one.
C18_FailedRefreshEvicts ==
    (LookedUp("stale") /\ ~lres.calls[1].ok) =>
        IF lres.status = 200
        THEN store[CacheKeyOf(lres.user)] = NewEntry(tokSeq, lres.user, lres.at)
        ELSE CacheKeyOf(lres.user) \notin DOMAIN store

C18_Witness ==
    /\ LookedUp("stale")
    /\ lres.calls[1].sent
    /\ lres.calls[1].status = 500
    /\ lres.status = 401
    /\ CacheKeyOf(lres.user) \notin DOMAIN store

\* C19: after a login request that obtained tokens from the provider (by a
\* refresh or by the full flow), the user's entry is exactly the newly
\* issued token pair with last_accessed = now; nothing of a prior entry
\* remains.
C19_SaveOverwrites ==
    (/\ lres.op = "handle_login"
     /\ lres.status = 200
     /\ lres.path \in {"refresh", "login"}) =>
        /\ store[CacheKeyOf(lres.user)] = NewEntry(tokSeq, lres.user, lres.at)
        /\ store[CacheKeyOf(lres.user)].last_accessed = lres.at
        /\ lres.cs \in {"stale", "dead"} =>
               /\ store[CacheKeyOf(lres.user)].token.access_token #
                      lres.entry[1].token.access_token
               /\ store[CacheKeyOf(lres.user)].token.refresh_token #
                      lres.entry[1].token.refresh_token

C19_Witness ==
    /\ lres.op = "handle_login"
    /\ lres.status = 200
    /\ lres.path = "refresh"
    /\ lres.cs = "stale"
    /\ store[CacheKeyOf(lres.user)].token.refresh_token = tokSeq
    /\ lres.entry[1].token.refresh_token < tokSeq

\* the calls of the last request that belong to the full login flow
IsFlowCall(c) == c.step # "refresh"
FlowCalls == SelectSeq(lres.calls, IsFlowCall)

\* C20: the calls of the full login flow are Initiate, Submit, Authorize,
\* Exchange in that order; a call that fails is the last one made; and the
\* flow leaves a cache entry only when all four calls succeeded.
C20_FlowInOrder ==
    (lres.op = "handle_login" /\ lres.path = "login") =>
        /\ Len(FlowCalls) \in 1..Len(FlowSteps)
        /\ \A i \in DOMAIN FlowCalls : FlowCalls[i].step = FlowSteps[i]
        /\ \A i \in DOMAIN FlowCalls : i < Len(FlowCalls) => FlowCalls[i].ok
        /\ lres.status = 200 <=>
               (Len(FlowCalls) = Len(FlowSteps) /\ FlowCalls[Len(FlowCalls)].ok)
        /\ lres.status # 200 => CacheKeyOf(lres.user) \notin DOMAIN store

C20_Witness ==
    /\ lres.op = "handle_login"
    /\ lres.path = "login"
    /\ Len(FlowCalls) = 3
    /\ FlowCalls[3].sent
    /\ ~FlowCalls[3].ok
    /\ lres.status = 401
    /\ CacheKeyOf(lres.user) \notin DOMAIN store


(***************************************************************************)
(* Properties of error reporting and of the failed-login counter           *)
(***************************************************************************)

\* the failed-login record stored for a user
FailedLoginKey(username) == RateKey("login_" \o username)

\* C21: a login that is stopped by the open breaker is not answered as an
\* authentication failure (401) and leaves the user's failed-login record
\* as it was.
C21_BreakerOpenNotAuthFailure ==
    [][(/\ nLogins' = nLogins + 1
        /\ lres'.op = "handle_login"
        /\ lres'.err = "breaker_open")
          => /\ lres'.status # 401
             /\ Get(store', FailedLoginKey(lres'.user))
                    = Get(store, FailedLoginKey(lres'.user))]_vars

\* the count of the failed-login record stored for a user, 0 without one
FailedLoginCount(st, username) ==
    IF FailedLoginKey(username) \in DOMAIN st
    THEN st[FailedLoginKey(username)].count
    ELSE 0

\* a login answered 401 adds one to the user's failed-login count, with
\* lockout_until = now + RATE_LIMIT_LOGIN_LOCKOUT_SECONDS from the
\* threshold on and none below it; a login answered 200 deletes the record
FailedLoginStep ==
    (nLogins' = nLogins + 1 /\ lres'.op = "handle_login") =>
        /\ lres'.status = 401 =>
             /\ FailedLoginKey(lres'.user) \in DOMAIN store'
             /\ FailedLoginCount(store', lres'.user)
                    = FailedLoginCount(store, lres'.user) + 1
             /\ store'[FailedLoginKey(lres'.user)].lockout_until
                    = IF FailedLoginCount(store', lres'.user)
                             >= RATE_LIMIT_LOGIN_ATTEMPTS
                      THEN <<now + RATE_LIMIT_LOGIN_LOCKOUT_SECONDS>>
                      ELSE <<>>
        /\ lres'.status = 200 =>
             FailedLoginKey(lres'.user) \notin DOMAIN store'

\* the stored count is the number of logins of the user that failed in a
\* row since the last one answered 200 (streak counts them up to the
\* threshold)
FailedLoginCountIsStreak ==
    \A u \in Users :
        IF streak[u].n < RATE_LIMIT_LOGIN_ATTEMPTS
        THEN FailedLoginCount(store, u) = streak[u].n
        ELSE FailedLoginCount(store, u) >= RATE_LIMIT_LOGIN_ATTEMPTS

FoundLockout ==
    /\ rlast.op = "check_rate_limit"
    /\ rlast.pre # <<>>
    /\ rlast.pre[1].lockout_until # <<>>
    /\ rlast.at < rlast.pre[1].lockout_until[1]

\* C23: a check_rate_limit call that finds lockout_until set with
\* now < lockout_until is denied and leaves the stored record (count,
\* window_start, lockout_until) as it found it.
C23_LockoutDeniesUnchanged ==
    FoundLockout =>
        /\ ~rlast.allowed
        /\ Get(store, rlast.key) = rlast.pre

\* a call under lockout whose window has expired and whose count is below
\* the limit: without the lockout it would have been allowed and stored
C23_Witness ==
    /\ FoundLockout
    /\ ~rlast.allowed
    /\ rlast.at - rlast.pre[1].window_start > rl.window_seconds

(***************************************************************************)
(* Actions of the interleaving model: two requests for one identity, each  *)
(* running check_rate_limit or get_or_refresh_token_for_user, suspended    *)
(* between its store.get and its store.set / store.delete and around its   *)
(* upstream calls.  At most two requests overlap, and they work on the    *)
(* same record; limit and window_seconds are drawn from small ranges.      *)
(***************************************************************************)
RaceUser == "ann@x.io"
RaceIdent == "api_" \o hash_username(RaceUser)
RaceRateKey == RateKey(RaceIdent)
RaceTokKey == CacheKeyOf(RaceUser)

RaceClock == {0, 1, 3, 3540, 3601}

Quiet == \A x \in Workers : race.w[x].pc = "idle"

\* A request may begin while another is in flight when that one is the
\* only other of its episode and works on the same record.
MayBegin(w, pcs) ==
    /\ race.w[w].pc = "idle"
    /\ race.begun < MaxRaceOps
    /\ \/ Quiet
       \/ /\ race.epi < Cardinality(Workers)
          /\ \A x \in Workers \ {w} : race.w[x].pc \in pcs

\* the store as a request knows it from the value its store.get returned
LocalView(pre, key) ==
    IF pre = <<>> THEN EmptyStore ELSE Put(EmptyStore, key, pre[1])

RaceOp(op, w, key, val) == [op |-> op, who |-> w, key |-> key, val |-> val]

\* bookkeeping common to the first step of a request
Begun(r, w, key) ==
    [r EXCEPT !.epi = IF Quiet THEN 1 ELSE @ + 1,
              !.begun = @ + 1,
              !.flows = IF Quiet THEN 0 ELSE @,
              !.sok = IF Quiet THEN 0 ELSE @,
              !.rok = IF Quiet THEN 0 ELSE @,
              !.shadow = IF Quiet THEN Get(store, RateKey(RaceIdent)) ELSE @,
              !.last = RaceOp("get", w, key, Get(store, key))]

XInit ==
    /\ now = 0
    /\ BreakerIdle
    /\ store = EmptyStore
    /\ rl \in [limit : 1..MaxLimit, window_seconds : 1..MaxWindow]
    /\ rlast = NoRateOp
    /\ gwin = [k \in {} |-> NoWin]
    /\ LoginIdle

XTick ==
    /\ \E t \in RaceClock : t > now /\ now' = t
    /\ UNCHANGED <<store, breaker, tokSeq, race>>

\* check_rate_limit up to the return of store.get
RateBegin(w) ==
    /\ MayBegin(w, {"rate_loaded"})
    /\ \E sr \in {check_rate_limit(
                      LocalView(Begun(race, w, RaceRateKey).shadow,
                                RaceRateKey),
                      RaceIdent, rl.limit, rl.window_seconds, now)} :
        race' = [Begun(race, w, RaceRateKey) EXCEPT
                    !.w[w] = [IdleWorker EXCEPT
                                 !.pc = "rate_loaded", !.t = now,
                                 !.pre = Get(store, RaceRateKey)],
                    !.shadow = Get(sr.store, RaceRateKey),
                    !.sok = IF sr.allowed THEN @ + 1 ELSE @]
    /\ UNCHANGED <<now, store, breaker, tokSeq>>

\* check_rate_limit from the loaded record to its return
RateEnd(w) ==
    /\ race.w[w].pc = "rate_loaded"
    /\ \E r \in {check_rate_limit(LocalView(race.w[w].pre, RaceRateKey),
                                  RaceIdent, rl.limit, rl.window_seconds,
                                  race.w[w].t)} :
        /\ store' = IF r.allowed
                    THEN Put(store, RaceRateKey, r.store[RaceRateKey])
                    ELSE store
        /\ race' = [race EXCEPT
                       !.w[w] = IdleWorker,
                       !.rok = IF r.allowed THEN @ + 1 ELSE @,
                       !.last = IF r.allowed
                                THEN RaceOp("set", w, RaceRateKey,
                                            <<r.store[RaceRateKey]>>)
                                ELSE RaceOp("none", w, RaceRateKey, <<>>)]
    /\ UNCHANGED <<now, breaker, tokSeq>>

\* get_or_refresh_token_for_user up to the return of
\* get_per_user_cached_token
TokBegin(w, pw_ok) ==
    /\ MayBegin(w, {"tok_loaded", "tok_cleanup", "tok_flow", "tok_save"})
    /\ \E g \in {get_per_user_cached_token(store, hash_username(RaceUser))} :
        race' = [Begun(race, w, RaceTokKey) EXCEPT
                    !.w[w] = IF g.err THEN IdleWorker
                             ELSE [IdleWorker EXCEPT
                                      !.pc = "tok_loaded", !.t = now,
                                      !.pre = g.entry, !.pw_ok = pw_ok]]
    /\ UNCHANGED <<now, store, breaker, tokSeq>>

\* the branch a request takes on the entry it loaded
LoadedStatus(l) == CacheStatus(LocalView(l.pre, RaceTokKey), RaceUser, l.t)

\* hit: update_access_time and save_per_user_token_to_cache
TokTouch(w) ==
    /\ race.w[w].pc = "tok_loaded"
    /\ LoadedStatus(race.w[w]) = "hit"
    /\ \E e \in {[race.w[w].pre[1] EXCEPT !.last_accessed = race.w[w].t]} :
        /\ store' = Put(store, RaceTokKey, e)
        /\ race' = [race EXCEPT !.w[w] = IdleWorker,
                                !.last = RaceOp("set", w, RaceTokKey, <<e>>)]
    /\ UNCHANGED <<now, breaker, tokSeq>>

\* stale: refresh_access_token with the loaded refresh token
TokRefresh(w, kind) ==
    /\ race.w[w].pc = "tok_loaded"
    /\ LoadedStatus(race.w[w]) = "stale"
    /\ \E rf \in {refresh_access_token(breaker, config, now,
                                       [AllOk EXCEPT !["refresh"] = kind])} :
        /\ breaker' = rf.b
        /\ tokSeq' = IF rf.ok THEN tokSeq + 1 ELSE tokSeq
        /\ race' = [race EXCEPT
                       !.w[w] = IF rf.ok
                                THEN [@ EXCEPT
                                         !.pc = "tok_save",
                                         !.pend = <<NewEntry(tokSeq + 1,
                                                             RaceUser,
                                                             race.w[w].t)>>]
                                ELSE [@ EXCEPT !.pc = "tok_cleanup"]]
    /\ UNCHANGED <<now, store>>

\* cleanup_expired_user_token, for an inactivity-expired entry and after a
\* failed refresh
TokCleanup(w) ==
    /\ \/ race.w[w].pc = "tok_cleanup"
       \/ race.w[w].pc = "tok_loaded" /\ LoadedStatus(race.w[w]) = "dead"
    /\ store' = Delete(store, RaceTokKey)
    /\ race' = [race EXCEPT !.w[w].pc = "tok_flow",
                            !.last = RaceOp("delete", w, RaceTokKey, <<>>)]
    /\ UNCHANGED <<now, breaker, tokSeq>>

\* perform_full_oauth_flow, for a miss and after a cleanup
TokFlow(w, up) ==
    /\ \/ race.w[w].pc = "tok_flow"
       \/ race.w[w].pc = "tok_loaded" /\ LoadedStatus(race.w[w]) = "absent"
    /\ \E ff \in {perform_full_oauth_flow(breaker, config, now, up,
                                          race.w[w].pw_ok)} :
        /\ breaker' = ff.b
        /\ tokSeq' = IF ff.ok THEN tokSeq + 1 ELSE tokSeq
        /\ race' = [race EXCEPT
                       !.flows = @ + 1,
                       !.w[w] = IF ff.ok
                                THEN [@ EXCEPT
                                         !.pc = "tok_save",
                                         !.pend = <<NewEntry(tokSeq + 1,
                                                             RaceUser,
                                                             race.w[w].t)>>]
                                ELSE IdleWorker]
    /\ UNCHANGED <<now, store>>

\* save_per_user_token_to_cache of a newly issued token
TokSave(w) ==
    /\ race.w[w].pc = "tok_save"
    /\ store' = Put(store, RaceTokKey, race.w[w].pend[1])
    /\ race' = [race EXCEPT !.w[w] = IdleWorker,
                            !.last = RaceOp("set", w, RaceTokKey,
                                            race.w[w].pend)]
    /\ UNCHANGED <<now, breaker, tokSeq>>

\* the provider's answers to a login flow: all accepted, or the first call
\* answered with a server error
RaceUpstreams == {AllOk, [AllOk EXCEPT !["initiate"] = "server"]}

XNext ==
    /\ \/ XTick
       \/ \E w \in Workers : RateBegin(w)
       \/ \E w \in Workers : RateEnd(w)
       \/ \E w \in Workers, pw_ok \in BOOLEAN : TokBegin(w, pw_ok)
       \/ \E w \in Workers : TokTouch(w)
       \/ \E w \in Workers, kind \in {"ok", "server"} : TokRefresh(w, kind)
       \/ \E w \in Workers : TokCleanup(w)
       \/ \E w \in Workers, up \in RaceUpstreams : TokFlow(w, up)
       \/ \E w \in Workers : TokSave(w)
    /\ UNCHANGED <<config, reqs, last, failRun, succRun, rl, rlast, gwin,
                   nLogins, streak, lres, jwts, retry,
                   tq, cb, health, active_sessions, sess>>

SpecRace == XInit /\ [][XNext]_vars

(***************************************************************************)
(* Properties of interleaved requests                                      *)
(***************************************************************************)

\* a RateLimitInfo as check_rate_limit stores it
WellFormedRate(v) ==
    /\ DOMAIN v = {"count", "window_start", "lockout_until"}
    /\ v.count \in 1..rl.limit
    /\ v.window_start \in 0..now
    /\ v.lockout_until = <<>>

\* a PerUserCachedToken as get_or_refresh_token_for_user stores it
WellFormedEntry(v) ==
    /\ Deserializes(v)
    /\ v.ttl_seconds = TOKEN_TTL_SECONDS
    /\ v.last_accessed \in 0..now
    /\ v.token.access_token \in 1..tokSeq
    /\ v.token.refresh_token = v.token.access_token
    /\ v.token.uuid = ProviderUuid[RaceUser]
    /\ v.token.expires_at
           <= v.last_accessed + ProviderExpiresIn - EXPIRY_BUFFER_SECONDS

\* C24: with two requests of one identity interleaving their store reads
\* and writes, every write replaces the stored value whole (last write
\* wins), the store holds only well-formed records, the rate limiter
\* allows at most one call more than it would allow the same calls made
\* one after the other (one tick not counted), and the two requests run
\* at most one login flow each.
C24_RaceLastWriteWins ==
    /\ race.last.op = "set" => Get(store, race.last.key) = race.last.val
    /\ race.last.op = "delete" => Get(store, race.last.key) = <<>>
    /\ RaceRateKey \in DOMAIN store => WellFormedRate(store[RaceRateKey])
    /\ RaceTokKey \in DOMAIN store => WellFormedEntry(store[RaceTokKey])
    /\ Quiet => race.rok - race.sok \in {0, 1}
    /\ race.flows <= race.epi

\* two overlapping check_rate_limit calls were both allowed where one
\* after the other only one would have been
C24_Witness ==
    /\ Quiet
    /\ race.epi = Cardinality(Workers)
    /\ race.last.op = "set"
    /\ race.last.key = RaceRateKey
    /\ race.rok = race.sok + 1

(***************************************************************************)
(* Further properties of the breaker                                       *)
(***************************************************************************)

\* C25: a record_success on a Closed breaker leaves it Closed with
\* failure_count 0 and nothing else changed, so the failure_count of a
\* Closed breaker is the length of the run of failures since the last
\* success, and a record_failure opens a Closed breaker only as the
\* failure_threshold-th failure of such a run.
C25_SuccessResetsFailures ==
    /\ (last.recorded = "success" /\ last.pre.current_state = "Closed")
           => breaker = [last.pre EXCEPT !.failure_count = 0]
    /\ breaker.current_state = "Closed" => breaker.failure_count = failRun
    /\ (/\ last.recorded = "failure"
        /\ last.pre.current_state = "Closed"
        /\ breaker.current_state = "Open")
           => failRun = config.failure_threshold

\* a success has wiped failure_threshold - 1 recorded failures
C25_Witness ==
    /\ last.recorded = "success"
    /\ last.pre.current_state = "Closed"
    /\ last.pre.failure_count >= 1
    /\ last.pre.failure_count = config.failure_threshold - 1
    /\ breaker.current_state = "Closed"
    /\ breaker.failure_count = 0

\* C26: on an Open breaker record_failure changes last_failure_time to now
\* and nothing else, and record_success changes nothing; the state stays
\* Open and both counters keep their values.
C26_OpenRecordsFrame ==
    /\ (last.recorded = "failure" /\ last.pre.current_state = "Open")
           => breaker = [last.pre EXCEPT !.last_failure_time = last.at]
    /\ (last.recorded = "success" /\ last.pre.current_state = "Open")
           => breaker = last.pre

\* a failure recorded on an Open breaker has moved last_failure_time
\* forward
C26_Witness ==
    /\ last.recorded = "failure"
    /\ last.pre.current_state = "Open"
    /\ last.at > last.pre.last_failure_time
    /\ breaker.current_state = "Open"
    /\ breaker.last_failure_time = last.at
    /\ breaker.failure_count = last.pre.failure_count

(***************************************************************************)
(* Actions of the retry-policy model: the exported functions called with   *)
(* arguments drawn from small sets.                                        *)
(***************************************************************************)
\* Guest::should_retry on the message of an error of class cls
ShouldRetry(cls, attempt, max_attempts) ==
    retry' = [RetryIdle EXCEPT
                 !.call = [NoRetryCall EXCEPT
                              !.op = "should_retry", !.cls = cls,
                              !.error_message = ErrorMessage(cls),
                              !.attempt = attempt,
                              !.max_attempts = max_attempts,
                              !.retry = should_retry_internal(
                                            ErrorMessage(cls), attempt,
                                            max_attempts)]]

\* Guest::calculate_backoff, in runs of calls with one configuration;
\* prev_attempt and prev_delay are those of the call before in the run
CalculateBackoff(attempt, cfg) ==
    \E same \in {retry.call.op = "calculate_backoff"} :
      /\ same => cfg = retry.config
      /\ \E d \in {calculate_backoff_internal(attempt, cfg)} :
        retry' = [config |-> cfg,
                  call |-> [NoRetryCall EXCEPT
                               !.op = "calculate_backoff",
                               !.attempt = attempt, !.delay = d,
                               !.prev_attempt = IF same THEN retry.call.attempt
                                                ELSE attempt,
                               !.prev_delay = IF same THEN retry.call.delay
                                              ELSE d]]

YNext ==
    /\ \/ \E cls \in ErrorClasses, attempt \in 0..MaxAttempt,
             max_attempts \in 0..MaxAttempt :
                 ShouldRetry(cls, attempt, max_attempts)
       \/ \E attempt \in 0..MaxAttempt, cfg \in RetryConfigs :
             CalculateBackoff(attempt, cfg)
    /\ UNCHANGED <<now, config, breaker, reqs, last, failRun, succRun,
                   store, rl, rlast, gwin, nLogins, tokSeq, streak, lres,
                   jwts, race, tq, cb, health, active_sessions, sess>>

SpecRetry == LInit /\ [][YNext]_vars

(***************************************************************************)
(* Properties of the retry policy                                          *)
(***************************************************************************)

\* C27: with attempt < max_attempts, should_retry is false for a
\* breaker-open error and for a client error status other than 429, and
\* true for a server error status, a network or timeout error, and 429.
C27_RetryByErrorClass ==
    (retry.call.op = "should_retry"
         /\ retry.call.attempt < retry.call.max_attempts) =>
        (retry.call.retry <=>
            \/ retry.call.cls.kind \in {"timeout", "network"}
            \/ /\ retry.call.cls.kind = "status"
               /\ \/ retry.call.cls.status >= 500
                  \/ retry.call.cls.status = 429)

\* C28: should_retry is false whenever attempt >= max_attempts, whatever
\* the error.
C28_NoRetryPastMaxAttempts ==
    (retry.call.op = "should_retry"
         /\ retry.call.attempt >= retry.call.max_attempts)
        => ~retry.call.retry

\* a server error at the last attempt is not retried
C28_Witness ==
    /\ retry.call.op = "should_retry"
    /\ retry.call.cls.kind = "status"
    /\ retry.call.cls.status = 500
    /\ retry.call.attempt >= 1
    /\ retry.call.attempt = retry.call.max_attempts
    /\ ~retry.call.retry

\* C29: calculate_backoff returns 0 for attempt 0, never more than
\* max_delay_ms, and no less for a later attempt than for an earlier one,
\* under every configuration.
C29_BackoffMonotoneCapped ==
    retry.call.op = "calculate_backoff" =>
        /\ retry.call.attempt = 0 => retry.call.delay = 0
        /\ retry.call.delay <= retry.config.max_delay_ms
        /\ retry.call.prev_attempt <= retry.call.attempt
               => retry.call.prev_delay <= retry.call.delay
        /\ retry.call.prev_attempt >= retry.call.attempt
               => retry.call.prev_delay >= retry.call.delay

\* C30: for attempt >= 1 calculate_backoff is
\* min(initial_delay_ms * multiplier^(attempt-1), max_delay_ms), cut to
\* whole milliseconds: 100, 200, 400, 800, 1600 under the default
\* configuration and 100, 300, 900, 2700 with multiplier 3.
C30_BackoffFormula ==
    (retry.call.op = "calculate_backoff" /\ retry.call.attempt >= 1) =>
        /\ IF retry.config.initial_delay_ms
                  * Pow(retry.config.multiplier.num, retry.call.attempt - 1)
              >= retry.config.max_delay_ms
                  * Pow(retry.config.multiplier.den, retry.call.attempt - 1)
           THEN retry.call.delay = retry.config.max_delay_ms
           ELSE /\ retry.call.delay
                       * Pow(retry.config.multiplier.den,
                             retry.call.attempt - 1)
                     <= retry.config.initial_delay_ms
                            * Pow(retry.config.multiplier.num,
                                  retry.call.attempt - 1)
                /\ retry.config.initial_delay_ms
                       * Pow(retry.config.multiplier.num,
                             retry.call.attempt - 1)
                     < (retry.call.delay + 1)
                           * Pow(retry.config.multiplier.den,
                                 retry.call.attempt - 1)
        /\ (retry.config = get_default_config /\ retry.call.attempt <= 5)
               => retry.call.delay
                      = <<100, 200, 400, 800, 1600>>[retry.call.attempt]
        /\ (/\ retry.config = [get_default_config EXCEPT
                                   !.multiplier = [num |-> 3, den |-> 1]]
            /\ retry.call.attempt <= 4)
               => retry.call.delay
                      = <<100, 300, 900, 2700>>[retry.call.attempt]

\* the fifth attempt under the default configuration waits 1600 ms
C30_Witness ==
    /\ retry.call.op = "calculate_backoff"
    /\ retry.config = get_default_config
    /\ retry.call.attempt = 5
    /\ retry.call.delay = 1600

(***************************************************************************)
(* Actions of the token model: CachedToken::from_token_response and        *)
(* CachedToken::is_expired called with arguments drawn from small sets.    *)
(***************************************************************************)
\* current_time at which a provider response arrives
IssueTimes == {0, 1000}

\* TokenResponse.expires_in (u32)
ExpiresIns == {0, 59, 60, 3600}

\* current_time of an is_expired call
QueryTimes ==
    {0, 1, 939, 940, 941, 999, 1000, 3539, 3540, 3541, 4539, 4540, 4541}

FromTokenResponse(t, e) ==
    tq' = [NoToken EXCEPT
              !.op = "from_token_response", !.issued_at = t,
              !.expires_in = e, !.at = t,
              !.token = from_token_response(1, ProviderUuid, e, t)]

IsExpired(t) ==
    /\ tq.op # "none"
    /\ tq' = [tq EXCEPT !.op = "is_expired", !.at = t,
                        !.expired = is_expired(tq.token, t)]

TNext ==
    /\ \/ \E t \in IssueTimes, e \in ExpiresIns : FromTokenResponse(t, e)
       \/ \E t \in QueryTimes : IsExpired(t)
    /\ UNCHANGED <<now, config, breaker, reqs, last, failRun, succRun,
                   store, rl, rlast, gwin, nLogins, tokSeq, streak, lres,
                   jwts, race, retry, cb, health, active_sessions, sess>>

SpecToken == LInit /\ [][TNext]_vars

(***************************************************************************)
(* Properties of the cached provider token                                 *)
(***************************************************************************)
\* C31: a token built from a provider response at time t with
\* expires_in = e has expires_at = t + e - 60, and is_expired(now) is true
\* exactly when now >= t + e - 60; for t = 1000 and e = 3600 the token is
\* not expired at 4539 and expired at 4540.
C31_ExpiryWithBuffer ==
    /\ tq.op # "none" =>
           tq.token.expires_at = tq.issued_at + tq.expires_in - 60
    /\ tq.op = "is_expired" =>
           (tq.expired <=> tq.at >= tq.issued_at + tq.expires_in - 60)
    /\ (tq.op = "is_expired" /\ tq.issued_at = 1000 /\ tq.expires_in = 3600) =>
           /\ tq.at = 4539 => ~tq.expired
           /\ tq.at = 4540 => tq.expired

\* is_expired has answered true at the very second the token expires
C31_Witness ==
    /\ tq.op = "is_expired"
    /\ tq.issued_at = 1000
    /\ tq.expires_in = 3600
    /\ tq.at = 4540
    /\ tq.expired

(***************************************************************************)
(* The gateway late in a rate window: the state left by 98 logins with a   *)
(* wrong password, one login with the right one and 99 data requests made  *)
(* with its access token, all at time 0 against a healthy provider. From  *)
(* there the requests of the token-cache model are handled.                *)
(***************************************************************************)
GateUser == CHOOSE u \in Users : TRUE

\* the store, the breaker and the provider's token count after n >= 1 more
\* logins of GateUser at time 0 (the run is split in halves)
RECURSIVE LoginsFrom(_, _, _)
LoginsFrom(g, pw_ok, n) ==
    IF n = 1
    THEN CHOOSE x \in
             {[store |-> r.store, b |-> r.b, seq |-> r.seq] :
                 r \in {handle_login(g.store, g.b, DefaultConfig, 0,
                                     GateUser, pw_ok, AllOk, g.seq)}} : TRUE
    ELSE CHOOSE x \in
             {LoginsFrom(h, pw_ok, n - (n \div 2)) :
                 h \in {LoginsFrom(g, pw_ok, n \div 2)}} : TRUE

\* the same after n >= 1 more data requests carrying the token with these
\* claims
RECURSIVE RequestsFrom(_, _, _)
RequestsFrom(g, claims, n) ==
    IF n = 1
    THEN CHOOSE x \in
             {[store |-> r.store, b |-> r.b, seq |-> g.seq] :
                 r \in {handle_request(g.store, g.b, DefaultConfig, 0,
                                       claims, "ok")}} : TRUE
    ELSE CHOOSE x \in
             {RequestsFrom(h, claims, n - (n \div 2)) :
                 h \in {RequestsFrom(g, claims, n \div 2)}} : TRUE

GateAccess == generate_access_token(GateUser, 0, NewJti({}, 1))
GateRefresh == generate_refresh_token(GateUser, 0, NewJti({}, 2))

LateInWindow ==
    RequestsFrom(
        LoginsFrom(
            LoginsFrom([store |-> EmptyStore, b |-> new, seq |-> 0],
                       FALSE, RATE_LIMIT_PER_USER_HOUR - 2),
            TRUE, 1),
        GateAccess, RATE_LIMIT_PER_USER_HOUR - 1)

GInit ==
    /\ now = 0
    /\ config = DefaultConfig
    /\ reqs = [r \in Requests |-> "idle"]
    /\ last = NoOp
    /\ failRun = 0
    /\ succRun = -1
    /\ rl = [limit |-> RATE_LIMIT_PER_USER_HOUR,
             window_seconds |-> RATE_WINDOW_SECONDS]
    /\ rlast = NoRateOp
    /\ gwin = [k \in {} |-> NoWin]
    /\ race = RaceIdle
    /\ retry = RetryIdle
    /\ tq = NoToken
    /\ cb = ComponentIdle
    /\ health = NoRecovery
    /\ \E g \in {LateInWindow} :
          /\ store = g.store
          /\ breaker = g.b
          /\ tokSeq = g.seq
    /\ nLogins = 0
    /\ streak = [u \in Users |-> NoStreak]
    /\ lres = NoLogin
    /\ jwts = {GateAccess, GateRefresh}
    /\ active_sessions = increment_active_sessions(U64Zero)
    /\ sess = [NoSessions EXCEPT
                  !.logins = 1,
                  !.owner = (GateAccess.jti :> 1) @@ (GateRefresh.jti :> 1)]

\* the requests of the token-cache model, against a provider that answers
\* every login call and either serves or fails a data call
GNext ==
    /\ \/ LTick
       \/ \E u \in Users, pw_ok \in BOOLEAN : CacheLogin(u, pw_ok, AllOk)
       \/ \E j \in jwts : HandleRefresh(j)
       \/ \E j \in jwts : HandleLogout(j)
       \/ \E j \in jwts, kind \in {"ok", "server"} : HandleRequest(j, kind)
    /\ UNCHANGED <<config, reqs, last, failRun, succRun, rl, rlast, gwin,
                   race, retry, tq, cb, health>>

SpecGate == GInit /\ [][GNext]_vars

(***************************************************************************)
(* Properties of the order of the checks in a request                      *)
(***************************************************************************)
\* the rate-limit record a request is counted under
GateKey(op, user) ==
    RateKey((IF op = "handle_login" THEN "login_" ELSE "api_")
            \o hash_username(user))

\* C32: a login or data request denied by check_rate_limit (answered 429)
\* has read no token-cache entry, has left the user's cache entry as it
\* was and has made no upstream call; and a request that did read the
\* cache or call the provider has first been counted by the rate limiter.
C32_RateLimitFirst ==
    lres.op \in {"handle_login", "handle_request"} =>
        /\ lres.status = 429 =>
               /\ lres.calls = <<>>
               /\ lres.path = "none"
               /\ lres.err = "none"
               /\ lres.bearer = <<>>
               /\ Get(store, CacheKeyOf(lres.user)) = lres.entry
        /\ (lres.calls # <<>> \/ lres.path # "none" \/ lres.bearer # <<>>) =>
               /\ GateKey(lres.op, lres.user) \in DOMAIN store
               /\ store[GateKey(lres.op, lres.user)].count >= 1

\* a request was denied while the cache held a usable token for its user
C32_Witness ==
    /\ lres.op \in {"handle_login", "handle_request"}
    /\ lres.status = 429
    /\ lres.cs = "hit"
    /\ lres.entry # <<>>

(***************************************************************************)
(* Properties of logout                                                    *)
(***************************************************************************)
\* the latest request carried a token that a logout had revoked before
PresentedRevoked ==
    /\ lres.op \in {"handle_request", "handle_refresh"}
    /\ sess.presented # <<>>
    /\ sess.presented[1].jti \in sess.revoked

\* C34: a data request or a refresh that presents a token whose jti a
\* logout has revoked is answered 401, and the jti of every token revoked
\* so far is still marked revoked in the store.
C34_RevokedStaysRejected ==
    /\ PresentedRevoked => lres.status = 401
    /\ \A jti \in sess.revoked : is_token_revoked(store, jti)

\* a refresh token that had not expired was presented to /auth/refresh
\* after its logout and was rejected
C34_Witness ==
    /\ PresentedRevoked
    /\ lres.op = "handle_refresh"
    /\ sess.presented[1].token_type = "refresh"
    /\ verify_token(sess.presented[1], lres.at)
    /\ lres.status = 401

(***************************************************************************)
(* Properties of what a login proves                                       *)
(***************************************************************************)
\* the provider accepted the credential submission during the request
SubmitAccepted(calls) ==
    \E i \in 1..Len(calls) : calls[i].step = "submit" /\ calls[i].ok

\* C35: a login answered 200 (and so handing out gateway tokens) presented
\* the right password, and the provider accepted the credentials during
\* that request.
C35_LoginProvesCredentials ==
    (lres.op = "handle_login" /\ lres.status = 200)
        => /\ lres.pw_ok
           /\ SubmitAccepted(lres.calls)

\* a login with a wrong password was answered 200 from the token cache
C35_WrongPasswordAccepted ==
    /\ lres.op = "handle_login"
    /\ lres.status = 200
    /\ ~lres.pw_ok
    /\ lres.path = "hit"

(***************************************************************************)
(* Actions of the two-breaker model: the breaker of the gateway and the    *)
(* breaker of components/circuit-breaker receive the same calls at the     *)
(* same clock values under the same configuration.                         *)
(***************************************************************************)
BothCanAttempt ==
    /\ GuestCanAttempt
    /\ \E r \in {can_attempt_component(cb.b, config, now)} :
          cb' = [b |-> r.b, pre |-> cb.b, op |-> "can_attempt", ok |-> r.ok,
                 retry_after_seconds |-> r.retry_after_seconds]

BothRecordSuccess ==
    /\ GuestRecordSuccess
    /\ cb' = [ComponentIdle EXCEPT
                 !.b = record_success_component(cb.b, config),
                 !.pre = cb.b, !.op = "record_success"]

BothRecordFailure ==
    /\ GuestRecordFailure
    /\ cb' = [ComponentIdle EXCEPT
                 !.b = record_failure_component(cb.b, config, now),
                 !.pre = cb.b, !.op = "record_failure"]

ENext ==
    /\ \/ Tick /\ UNCHANGED cb
       \/ BothCanAttempt
       \/ BothRecordSuccess
       \/ BothRecordFailure
    /\ UNCHANGED rvars
    /\ UNCHANGED <<nLogins, tokSeq, streak, lres, jwts, race, retry,
                   tq, health, active_sessions, sess>>

SpecEquiv == BInit /\ [][ENext]_vars

(***************************************************************************)
(* Properties of the breaker's transitions                                 *)
(***************************************************************************)
\* the step from state a to state b made by call op at time t, on a breaker
\* whose last failure was at lft, is one of the four transitions
LegalStep(a, b, op, t, lft) ==
    \/ a = b
    \/ a = "Closed" /\ b = "Open" /\ op = "record_failure"
    \/ a = "Open" /\ b = "HalfOpen" /\ op = "can_attempt"
                  /\ t - lft >= config.timeout_seconds
    \/ a = "HalfOpen" /\ b = "Closed" /\ op = "record_success"
    \/ a = "HalfOpen" /\ b = "Open" /\ op = "record_failure"

\* C36: every call leaves either breaker in the state it was in or moves it
\* along Closed -> Open (record_failure), Open -> HalfOpen (can_attempt
\* once the timeout has passed), HalfOpen -> Closed (record_success) or
\* HalfOpen -> Open (record_failure); record_success never opens it.
C36_TransitionsOnly ==
    /\ LegalStep(last.pre.current_state, breaker.current_state, last.op,
                 last.at, last.pre.last_failure_time)
    /\ LegalStep(cb.pre.current_state, cb.b.current_state, cb.op,
                 last.at, cb.pre.last_failure_time)
    /\ last.op = "record_success" => breaker.current_state # "Open" \/
                                     last.pre.current_state = "Open"
    /\ cb.op = "record_success" => cb.b.current_state # "Open" \/
                                   cb.pre.current_state = "Open"

\* the latest call has closed a HalfOpen breaker in both implementations
C36_Witness ==
    /\ last.op = "record_success"
    /\ last.pre.current_state = "HalfOpen"
    /\ breaker.current_state = "Closed"
    /\ cb.pre.current_state = "HalfOpen"
    /\ cb.b.current_state = "Closed"

(***************************************************************************)
(* Properties of the two breaker implementations                           *)
(***************************************************************************)
\* C39: after every call the breaker of components/circuit-breaker and the
\* breaker of the gateway hold the same state, failure_count,
\* success_count and last_failure_time, and the call has returned the same
\* result (Ok, or Err with the same retry_after_seconds) from both.
C39_BreakersEquivalent ==
    /\ cb.b.current_state = breaker.current_state
    /\ cb.b.failure_count = breaker.failure_count
    /\ cb.b.success_count = breaker.success_count
    /\ cb.b.last_failure_time = breaker.last_failure_time
    /\ cb.op = last.op
    /\ cb.ok = last.ok
    /\ cb.retry_after_seconds = last.retry_after_seconds

\* both have refused a call on an Open breaker with time left to wait, and
\* before that a success on a Closed breaker had reset their failure counts
C39_Witness ==
    /\ cb.op = "can_attempt"
    /\ ~cb.ok
    /\ ~last.ok
    /\ cb.retry_after_seconds > 0
    /\ cb.b.current_state = "Open"
    /\ breaker.current_state = "Open"
    /\ failRun = -1

(***************************************************************************)
(* Properties of the breaker's success counter                             *)
(***************************************************************************)
\* C37: success_count stays below success_threshold, and it is 0 whenever
\* the breaker is not HalfOpen.
C37_SuccessCountBounded ==
    /\ breaker.success_count < config.success_threshold
    /\ breaker.current_state # "HalfOpen" => breaker.success_count = 0

\* a HalfOpen breaker one success short of closing
C37_Witness ==
    /\ breaker.current_state = "HalfOpen"
    /\ breaker.success_count >= 1
    /\ breaker.success_count = config.success_threshold - 1
    /\ last.recorded = "success"

(***************************************************************************)
(* Properties of the stored request count                                  *)
(***************************************************************************)
\* C38: whatever the order and the overlap of the check_rate_limit calls
\* made for a key with one limit, the count stored for the key never
\* exceeds that limit.
C38_StoredCountWithinLimit ==
    RaceRateKey \in DOMAIN store => store[RaceRateKey].count <= rl.limit

\* of two overlapping calls the later one was denied, and the stored count
\* is the limit
C38_Witness ==
    /\ RaceRateKey \in DOMAIN store
    /\ store[RaceRateKey].count = rl.limit
    /\ race.epi = 2
    /\ Quiet
    /\ race.last = RaceOp("none", race.last.who, RaceRateKey, <<>>)
    /\ race.last.who \in Workers

(***************************************************************************)
(* Properties of the active_sessions gauge                                 *)
(***************************************************************************)
\* the logins that a logout has ended: those with a revoked token
EndedSessions == {sess.owner[jti] : jti \in sess.revoked}

\* C40: the gauge equals the number of logins answered 200 minus the number
\* of sessions a logout has ended; in particular it never wraps below 0.
C40_GaugeCountsLiveSessions ==
    active_sessions = U64Of(sess.logins - Cardinality(EndedSessions))

\* the gauge has wrapped to 2^64 - 1
C40_GaugeWrapped ==
    active_sessions = <<LimbBase - 1, LimbBase - 1, LimbBase - 1, LimbBase - 1>>

(***************************************************************************)
(* Actions of the recovery model: concurrent send_request calls against a  *)
(* provider that fails for a while and then, from some instant on, answers *)
(* every call with a 2xx.  The clock is capped at MaxLiveTime, so the       *)
(* provider recovers while a full timeout of clock is still left.          *)
(***************************************************************************)
\* the configurations of the recovery model: the breaker opens at the
\* first or the second failure, waits one or two seconds and closes at the
\* first or the second success
LiveConfigs ==
    {[failure_threshold |-> 1, timeout_seconds |-> 1, success_threshold |-> 1],
     [failure_threshold |-> 2, timeout_seconds |-> 1, success_threshold |-> 2],
     [failure_threshold |-> 1, timeout_seconds |-> 2, success_threshold |-> 2]}

\* one outcome of each class send_request distinguishes: 2xx, 5xx, another
\* status, a transport error
LiveOutcomes ==
    {[err |-> FALSE, status |-> 200], [err |-> FALSE, status |-> 503],
     [err |-> FALSE, status |-> 404], NetErr}

VInit ==
    /\ now = 0
    /\ config \in LiveConfigs
    /\ breaker = new
    /\ reqs = [r \in Requests |-> "idle"]
    /\ last = NoOp
    /\ failRun = 0
    /\ succRun = -1
    /\ RateIdle
    /\ LoginIdle

\* the provider recovers for good
Heal ==
    /\ ~health.recovered
    /\ health' = [recovered |-> TRUE, found |-> breaker.current_state]
    /\ UNCHANGED <<now, config, breaker, reqs, last, failRun, succRun>>

LiveTick ==
    /\ now < MaxLiveTime
    /\ health.recovered \/ now + config.timeout_seconds < MaxLiveTime
    /\ now' = now + 1
    /\ UNCHANGED <<config, breaker, reqs, last, failRun, succRun, health>>

\* send_request, entry to the await
LiveSendRequestBegin(r) ==
    /\ SendRequestBegin(r)
    /\ UNCHANGED health

\* send_request, from the completion of the upstream call to its return;
\* once the provider has recovered the call returns a 2xx
LiveSendRequestEnd(r, o) ==
    /\ health.recovered => Is2xx(o)
    /\ SendRequestEnd(r, o)
    /\ UNCHANGED health

\* what no step of the recovery model changes
LiveFrame ==
    /\ UNCHANGED rvars
    /\ UNCHANGED <<nLogins, tokSeq, streak, lres, jwts, race, retry,
                   tq, cb, active_sessions, sess>>

VNext ==
    /\ \/ Heal
       \/ LiveTick
       \/ \E r \in Requests : LiveSendRequestBegin(r)
       \/ \E r \in Requests, o \in LiveOutcomes : LiveSendRequestEnd(r, o)
    /\ LiveFrame

\* time keeps advancing, requests keep arriving and every call that was
\* sent returns
SpecLive ==
    /\ VInit
    /\ [][VNext]_vars
    /\ WF_vars(LiveTick /\ LiveFrame)
    /\ \A r \in Requests :
          /\ WF_vars(LiveSendRequestBegin(r) /\ LiveFrame)
          /\ WF_vars((\E o \in LiveOutcomes : LiveSendRequestEnd(r, o))
                     /\ LiveFrame)

(***************************************************************************)
(* Properties of the breaker's recovery                                    *)
(***************************************************************************)
\* C33: once the provider has recovered, an Open breaker eventually becomes
\* HalfOpen and a HalfOpen breaker eventually becomes Closed.
C33_BreakerRecovers ==
    /\ (health.recovered /\ breaker.current_state = "Open")
           ~> (breaker.current_state = "HalfOpen")
    /\ (health.recovered /\ breaker.current_state = "HalfOpen")
           ~> (breaker.current_state = "Closed")

\* the provider recovered while the breaker was Open, and a 2xx answer has
\* now closed the breaker
C33_Witness ==
    /\ health.recovered
    /\ health.found = "Open"
    /\ last.op = "send_request_result"
    /\ last.recorded = "success"
    /\ last.pre.current_state = "HalfOpen"
    /\ breaker.current_state = "Closed"

====
